---- MODULE Spec2Model ----
(***************************************************************************)
(* Model of the rhythm game main loop (src/unnamed/part_001, the revision  *)
(* with the HP gauge and the GAMEOVER screen) and of the helpers in        *)
(* src/src/file_utils.cpp.                                                 *)
(*                                                                         *)
(* Time is counted in milliseconds.  The C++ code works in float seconds;  *)
(* every comparison of the code is kept with its strictness, and the note  *)
(* speed multiplier is counted in tenths so that the fall time             *)
(* JUDGMENT_LINE_Y / (NOTE_PIXELS_PER_SECOND * multiplier) is compared     *)
(* exactly, by cross-multiplication.  Float rounding is not modelled.      *)
(*                                                                         *)
(* sf::Music is the external playback device: it has a status, a playing   *)
(* offset that advances on its own thread while the status is Playing and  *)
(* a duration; at the end of the audio the status becomes Stopped and the  *)
(* playing offset is 0 again.                                              *)
(***************************************************************************)
EXTENDS Integers, Sequences, FiniteSets, TLC

\* ------------------------------------------------------------------------
\* Program constants
\* ------------------------------------------------------------------------
LANE_COUNT == 6
JUDGMENT_LINE_Y == 980
NOTE_PIXELS_PER_SECOND == 350
PERFECT_WINDOW == 80
GREAT_WINDOW == 150
EVICT_DELAY == 1000
MAX_HP == 100

LANE_KEYS == <<"S", "D", "F", "J", "K", "L">>

GameStates == {"TITLE", "OPTIONS", "SONG_SELECTION", "DIFFICULTY_SELECTION",
               "PLAYING", "PAUSED", "GAMEOVER", "RESULTS"}

TITLE_MENU_SIZE == 2
OPTION_MENU_SIZE == 4
PAUSE_MENU_SIZE == 3
GAMEOVER_MENU_SIZE == 2
RESULTS_MENU_SIZE == 2

\* ------------------------------------------------------------------------
\* Bounds of the model
\* ------------------------------------------------------------------------
\* The playing offset advances in steps of FrameMs milliseconds.
FrameMs == 200
\* Number of equal notes stacked in lane 0 of the HARD chart.
StackSize == 11
\* Largest number of events of a MIDI file given to the chart loader.
MaxEvents == 3

\* ------------------------------------------------------------------------
\* Helpers
\* ------------------------------------------------------------------------
Abs(x) == IF x < 0 THEN -x ELSE x

\* Variant of Min: the second argument, uncapped.
MinNoCap(a, b) == b

Min(a, b) == IF a < b THEN a ELSE b

\* Variant of Max: the first argument, never raised.
MaxKeep(a, b) == a

Max(a, b) == IF a > b THEN a ELSE b

\* struct Note (the shape is rendering only)
Note(lane, t) == [laneIndex |-> lane, spawnTime |-> t, isProcessed |-> FALSE]


\* ------------------------------------------------------------------------
\* Input data: songs.json, the MIDI charts, the audio files, config.json
\* ------------------------------------------------------------------------
\* One event of the joined MIDI track (smf::MidiEvent): note-on or not, the
\* key number, the time in milliseconds that doTimeAnalysis has given it.
MidiEvent(on, key, t) == [isNoteOn |-> on, keyNumber |-> key, seconds |-> t]

\* A MIDI file as midiFile.read() finds it: readable or not, and the events
\* of its tracks joined in the order of their ticks.
MidiFile(events) == [readable |-> TRUE, events |-> events]

\* A path that midiFile.read() cannot read.
UnreadableFile == [readable |-> FALSE, events |-> << >>]

\* A MIDI file with one note-on event for each note of a chart, on a key of
\* the octave of key 60 (60 is a multiple of LANE_COUNT).
MidiOf(ch) == MidiFile([i \in 1..Len(ch) |-> MidiEvent(TRUE, 60 + ch[i].laneIndex, ch[i].spawnTime)])

\* The MIDI files given to the chart loader: an unreadable one, and every
\* joined track of at most MaxEvents note-on and other events, in the order
\* of their times, on three keys (of the lanes 5, 0 and 1) at two times.
MidiKeys == {5, 66, 127}

MidiTimes == {100, 300}

MidiEvents == {MidiEvent(on, key, t) : on \in BOOLEAN, key \in MidiKeys, t \in MidiTimes}

MidiFiles ==
    {UnreadableFile} \cup
    {MidiFile(events) : events \in
        UNION {{q \in [1..n -> MidiEvents] :
                   \A i \in 1..(n - 1) : q[i].seconds <= q[i + 1].seconds} : n \in 0..MaxEvents}}

\* loadChartFromMidi of a four note chart: two notes of lane 1 that are
\* 80 ms apart, a note of lane 2 (std::sort has put it between them) and a
\* later note of lane 3.
EasyChart == <<Note(1, 250), Note(2, 280), Note(1, 330), Note(3, 1070)>>

\* loadChartFromMidi of a chart with a chord of StackSize notes that all map
\* to lane 0 (key numbers equal modulo LANE_COUNT) and a last note that lies
\* after the end of the audio.
HardChart == [i \in 1..StackSize |-> Note(0, 400)] \o <<Note(3, 5000)>>

\* loadChartFromMidi of an unreadable file: return {}
NoChart == << >>

\* songs.json; audioLen is the duration of the audio file in milliseconds.
SongFile == << [title |-> "a", audioLen |-> 1800,
                charts |-> << [difficultyName |-> "EASY", midi |-> MidiOf(EasyChart)],
                              [difficultyName |-> "HARD", midi |-> MidiOf(HardChart)],
                              [difficultyName |-> "NONE", midi |-> UnreadableFile] >>] >>

\* A songs.json with the HARD chart only.
HardSongFile == << [title |-> "a", audioLen |-> 1800,
                    charts |-> << [difficultyName |-> "HARD", midi |-> MidiOf(HardChart)] >>] >>

\* loadChartFromMidi of a chart with one note, 100 ms before the end of the
\* audio.
LateChart == <<Note(2, 1700)>>

\* A songs.json with the LATE and the HARD chart.
LateSongFile == << [title |-> "a", audioLen |-> 1800,
                    charts |-> << [difficultyName |-> "LATE", midi |-> MidiOf(LateChart)],
                                  [difficultyName |-> "HARD", midi |-> MidiOf(HardChart)] >>] >>

\* loadChartFromMidi of a chart with an early note and a note that is, for
\* the multiplier 1.0, exactly the fall time (2.8 s) ahead of a value of the
\* clock.
EdgeChart == <<Note(0, 400), Note(1, 3000)>>

\* A songs.json with the EDGE and the HARD chart.
EdgeSongFile == << [title |-> "a", audioLen |-> 1800,
                    charts |-> << [difficultyName |-> "EDGE", midi |-> MidiOf(EdgeChart)],
                                  [difficultyName |-> "HARD", midi |-> MidiOf(HardChart)] >>] >>

\* config.json as loadConfig may return it: the multiplier in tenths, the
\* volumes in percent, the audio offset in milliseconds.
Configs == { [noteSpeedMultiplier |-> 10, bgmVolume |-> 100, sfxVolume |-> 100, audioOffset |-> 0],
             [noteSpeedMultiplier |-> 50, bgmVolume |-> 100, sfxVolume |-> 100, audioOffset |-> -200] }

\* config.json with a positive and with a negative audio offset.
EdgeConfigs == { [noteSpeedMultiplier |-> 10, bgmVolume |-> 100, sfxVolume |-> 100, audioOffset |-> 200],
                 [noteSpeedMultiplier |-> 10, bgmVolume |-> 100, sfxVolume |-> 100, audioOffset |-> -200] }

\* struct GameConfig as constructed: the configuration without a config.json.
DefaultConfig == [noteSpeedMultiplier |-> 10, bgmVolume |-> 100, sfxVolume |-> 100, audioOffset |-> 0]

\* config.json files with every value inside its bounds and next to one of
\* them, on and off the grid of the adjustment steps.
BoundaryConfigs ==
    [noteSpeedMultiplier : {2, 49}, bgmVolume : {5, 98}, sfxVolume : {3, 95},
     audioOffset : {-995, 999}]

\* The configurations from which the adjustments of the options screen are
\* explored: the default one and those at and next to the bounds.
AdjustableConfigs ==
    {DefaultConfig} \cup
    [noteSpeedMultiplier : {1, 2, 49, 50}, bgmVolume : {0, 5, 98, 100},
     sfxVolume : {0, 3, 95, 100}, audioOffset : {-1000, -995, 999, 1000}]

\* loadChartFromMidi of a chart with one note.
SoloChart == <<Note(0, 400)>>

\* Titles and difficulty names with and without a '-'.
KeyNames == { <<"a", "c">>, <<"a", "b-c">>, <<"a-b", "c">> }

\* songs.json files with two songs of one chart each, the two (title,
\* difficulty name) pairs different.
KeySongFiles ==
    { << [title |-> pq[1][1], audioLen |-> 1800,
          charts |-> << [difficultyName |-> pq[1][2], midi |-> MidiOf(SoloChart)] >>],
         [title |-> pq[2][1], audioLen |-> 1800,
          charts |-> << [difficultyName |-> pq[2][2], midi |-> MidiOf(SoloChart)] >>] >> :
      pq \in {x \in KeyNames \X KeyNames : x[1] # x[2]} }

\* scores.json as loadHighScores may return it: here every chart already has
\* a high score that no session can beat.
HighScoreFiles == { [k \in {"a-EASY", "a-HARD"} |-> 10000] }

Keys == {"Up", "Down", "Left", "Right", "Enter", "Escape", "Space"}
          \cup {LANE_KEYS[i] : i \in 1..LANE_COUNT}

\* ------------------------------------------------------------------------
\* State
\* ------------------------------------------------------------------------
VARIABLES
    songs,                    \* std::vector<SongData> songs, read from songs.json
    running,                  \* window.isOpen() and main has not returned
    loopPc,                   \* position in the body of the game loop
    gameState,
    score, combo, maxCombo, hp,
    perfectCount, greatCount, missCount,
    nextNoteIndex,
    activeNotes,              \* copies of chart notes; id is the chart index
    chart,
    musicStatus, musicPos, musicLen,   \* sf::Music music
    config,
    selectedSongIndex, selectedDifficultyIndex, selectedPauseMenuIndex,
    selectedTitleMenuIndex, selectedResultsMenuIndex, selectedOptionsMenuIndex,
    highScores,
    judgeCount,               \* history: judgments of each chart note this session
    lastOutcome               \* history: currentJudgment of the last lane key press

progressVars == <<score, combo, maxCombo, hp, perfectCount, greatCount, missCount>>
sessionVars == <<nextNoteIndex, activeNotes, judgeCount, lastOutcome>>
musicVars == <<musicStatus, musicPos, musicLen>>
menuVars == <<selectedSongIndex, selectedDifficultyIndex, selectedPauseMenuIndex,
              selectedTitleMenuIndex, selectedResultsMenuIndex, selectedOptionsMenuIndex>>
vars == <<songs, running, loopPc, gameState, progressVars, sessionVars, chart, musicVars,
          config, menuVars, highScores>>

\* The state when the game loop is entered, for the given config.json and
\* scores.json.
InitWith(songFile, configs, scoreFiles) ==
    /\ songs = songFile
    /\ running = TRUE
    /\ loopPc = "poll"
    /\ gameState = "TITLE"
    /\ score = 0 /\ combo = 0 /\ maxCombo = 0 /\ hp = 100
    /\ perfectCount = 0 /\ greatCount = 0 /\ missCount = 0
    /\ nextNoteIndex = 0
    /\ activeNotes = << >>
    /\ chart = << >>
    /\ musicStatus = "Stopped" /\ musicPos = 0 /\ musicLen = 0
    /\ config \in configs
    /\ selectedSongIndex = 0 /\ selectedDifficultyIndex = 0
    /\ selectedPauseMenuIndex = 0 /\ selectedTitleMenuIndex = 0
    /\ selectedResultsMenuIndex = 0 /\ selectedOptionsMenuIndex = 0
    /\ highScores \in scoreFiles
    /\ judgeCount = << >>
    /\ lastOutcome = "NONE"

Init == InitWith(SongFile, Configs, HighScoreFiles)

\* A first run of the game with the HARD chart alone: no scores.json yet,
\* the default offset.
InitScores == InitWith(HardSongFile, {c \in Configs : c.audioOffset = 0}, {[k \in {} |-> 0]})

\* The LATE and the HARD chart, the default offset.
InitLive == InitWith(LateSongFile, {c \in Configs : c.audioOffset = 0}, HighScoreFiles)

\* The EDGE and the HARD chart, an audio offset of 200 ms either way.
InitEdge == InitWith(EdgeSongFile, EdgeConfigs, HighScoreFiles)

\* The HARD chart, a config.json next to the bounds.
InitOptions == InitWith(HardSongFile, BoundaryConfigs, HighScoreFiles)

\* The HARD chart, no config.json.
InitCalibration == InitWith(HardSongFile, {DefaultConfig}, HighScoreFiles)

\* Two songs whose names may hold a '-', no scores.json yet, no config.json.
InitKeys ==
    \E file \in KeySongFiles : InitWith(file, {DefaultConfig}, {[k \in {} |-> 0]})

\* A songs.json with one song and one chart, for each of the MIDI files, the
\* default configuration.
InitLoader ==
    \E file \in MidiFiles :
        InitWith(<< [title |-> "a", audioLen |-> 1800,
                     charts |-> << [difficultyName |-> "MIDI", midi |-> file] >>] >>,
                 {c \in Configs : c.audioOffset = 0}, HighScoreFiles)

\* ------------------------------------------------------------------------
\* sf::Music as the game uses it
\* ------------------------------------------------------------------------
\* music.play(): resumes a paused stream, restarts a stopped one from 0.
MusicPlay ==
    /\ musicStatus' = "Playing"
    /\ musicPos' = IF musicStatus = "Stopped" THEN 0 ELSE musicPos
    /\ UNCHANGED musicLen

\* music.pause(): only a playing stream is paused.
MusicPause ==
    /\ musicStatus' = IF musicStatus = "Playing" THEN "Paused" ELSE musicStatus
    /\ UNCHANGED <<musicPos, musicLen>>

\* music.stop(): the playing offset is reset.
MusicStop ==
    /\ musicStatus' = "Stopped"
    /\ musicPos' = 0
    /\ UNCHANGED musicLen

\* music.stop(); music.play()
MusicRestart ==
    /\ musicStatus' = "Playing"
    /\ musicPos' = 0
    /\ UNCHANGED musicLen

\* The audio thread: the playing offset advances while the stream plays; at
\* the end of the audio the stream stops by itself.
AudioAdvance ==
    /\ running
    /\ musicStatus = "Playing"
    /\ IF musicPos + FrameMs >= musicLen
         THEN musicStatus' = "Stopped" /\ musicPos' = 0
         ELSE musicStatus' = "Playing" /\ musicPos' = musicPos + FrameMs
    /\ UNCHANGED <<running, loopPc, gameState, progressVars, sessionVars, chart,
                   musicLen, config, songs, menuVars, highScores>>

\* ------------------------------------------------------------------------
\* Pure parts of the game loop
\* ------------------------------------------------------------------------
\* Variant of JudgmentTime: the raw playing offset.
JudgmentTimeRaw(pos, cfg) == pos

\* music.getPlayingOffset().asSeconds() + config.audioOffset / 1000.0f
JudgmentTime(pos, cfg) == pos + cfg.audioOffset

\* Variant of Classify: the Perfect window includes its bound.
ClassifyInclusive(musicTime, note) ==
    LET diff == Abs(musicTime - note.spawnTime)
    IN  IF diff <= PERFECT_WINDOW THEN "PERFECT"
        ELSE IF diff < GREAT_WINDOW THEN "GREAT"
        ELSE "NONE"

\* Variant of Classify: the Great window has no bound.
ClassifyNoLimit(musicTime, note) ==
    LET diff == Abs(musicTime - note.spawnTime)
    IN  IF diff < PERFECT_WINDOW THEN "PERFECT" ELSE "GREAT"

\* The classification of one key press against one note.
Classify(musicTime, note) ==
    LET diff == Abs(musicTime - note.spawnTime)
    IN  IF diff < PERFECT_WINDOW THEN "PERFECT"
        ELSE IF diff < GREAT_WINDOW THEN "GREAT"
        ELSE "NONE"

\* Variant of ScoreAfter: a Great takes 50 points away.
ScoreAfterPenalty(judgment, s) ==
    IF judgment = "PERFECT" THEN s + 100
    ELSE IF judgment = "GREAT" THEN s - 50
    ELSE s

\* Variant of ScoreAfter: a Great scores as much as a Perfect.
ScoreAfterFlat(judgment, s) ==
    IF judgment = "NONE" THEN s ELSE s + 100

\* score += 100; / score += 50;
ScoreAfter(judgment, s) ==
    IF judgment = "PERFECT" THEN s + 100
    ELSE IF judgment = "GREAT" THEN s + 50
    ELSE s

\* Variant of ComboAfter: a Great does not count for the combo.
ComboAfterPerfectOnly(judgment, c) ==
    IF judgment = "PERFECT" THEN c + 1 ELSE c

\* combo++; in both branches of the classification
ComboAfter(judgment, c) ==
    IF judgment = "NONE" THEN c ELSE c + 1

\* Lane index of a key, -1 for a key that is no lane key.
LaneOfKey(key) ==
    IF \E i \in 1..LANE_COUNT : LANE_KEYS[i] = key
    THEN (CHOOSE i \in 1..LANE_COUNT : LANE_KEYS[i] = key) - 1
    ELSE -1

\* Variant of Scanned: the judged flag is not looked at.
ScannedJudgedToo(notes, lane) ==
    {j \in 1..Len(notes) : notes[j].laneIndex = lane}

\* Variant of Scanned: the lane of the note is not compared with the key.
ScannedAnyLane(notes, lane) ==
    {j \in 1..Len(notes) : ~notes[j].isProcessed}

\* Positions of the active notes the scan of a lane key looks at.
Scanned(notes, lane) ==
    {j \in 1..Len(notes) : ~notes[j].isProcessed /\ notes[j].laneIndex = lane}

\* Variant of HitIndex: the last scanned note that classifies.
HitIndexLast(notes, lane, musicTime) ==
    LET hits == {j \in Scanned(notes, lane) : Classify(musicTime, notes[j]) # "NONE"}
    IN  IF hits = {} THEN 0 ELSE CHOOSE j \in hits : \A k \in hits : j >= k

\* Position in the active list of the note a press of this lane at this time
\* judges: the first scanned note that classifies, 0 when there is none.
HitIndex(notes, lane, musicTime) ==
    LET hits == {j \in Scanned(notes, lane) : Classify(musicTime, notes[j]) # "NONE"}
    IN  IF hits = {} THEN 0 ELSE CHOOSE j \in hits : \A k \in hits : j <= k

\* Variant of Admissible: a note exactly the fall time ahead is admitted.
AdmissibleInclusive(note, adjustedMusicTime, cfg) ==
    (note.spawnTime - adjustedMusicTime) * NOTE_PIXELS_PER_SECOND * cfg.noteSpeedMultiplier
        <= JUDGMENT_LINE_Y * 10000

\* chart[nextNoteIndex].spawnTime < adjustedMusicTime + fallTime
Admissible(note, adjustedMusicTime, cfg) ==
    (note.spawnTime - adjustedMusicTime) * NOTE_PIXELS_PER_SECOND * cfg.noteSpeedMultiplier
        < JUDGMENT_LINE_Y * 10000

\* The value of nextNoteIndex after the admission loop.
AdmitUpTo(ch, cursor, adjustedMusicTime, cfg) ==
    LET stops == {j \in cursor..(Len(ch) - 1) : ~Admissible(ch[j + 1], adjustedMusicTime, cfg)}
    IN  IF stops = {} THEN Max(cursor, Len(ch)) ELSE CHOOSE j \in stops : \A k \in stops : j <= k

\* Variant of Admitted: the copies are flagged as judged.
AdmittedJudged(ch, from, to) ==
    [j \in 1..(to - from) |->
        [id |-> from + j, laneIndex |-> ch[from + j].laneIndex,
         spawnTime |-> ch[from + j].spawnTime, isProcessed |-> TRUE]]

\* Variant of Admitted: the note before the cursor is pushed once more.
AdmittedTwice(ch, from, to) ==
    LET first == IF from > 0 /\ to > from THEN from - 1 ELSE from
    IN  [j \in 1..(to - first) |->
            [id |-> first + j, laneIndex |-> ch[first + j].laneIndex,
             spawnTime |-> ch[first + j].spawnTime, isProcessed |-> ch[first + j].isProcessed]]

\* activeNotes.push_back(chart[nextNoteIndex]) for the notes from..to-1
Admitted(ch, from, to) ==
    [j \in 1..(to - from) |->
        [id |-> from + j, laneIndex |-> ch[from + j].laneIndex,
         spawnTime |-> ch[from + j].spawnTime, isProcessed |-> ch[from + j].isProcessed]]

\* Variant of TimedOut: a note exactly GREAT_WINDOW late is a Miss already.
TimedOutInclusive(note, adjustedMusicTime) ==
    ~note.isProcessed /\ note.spawnTime - adjustedMusicTime <= -GREAT_WINDOW

\* Variant of TimedOut: the judged flag is not looked at.
TimedOutAgain(note, adjustedMusicTime) ==
    note.spawnTime - adjustedMusicTime < -GREAT_WINDOW

\* timeUntilJudgment < -GREAT_WINDOW
TimedOut(note, adjustedMusicTime) ==
    ~note.isProcessed /\ note.spawnTime - adjustedMusicTime < -GREAT_WINDOW

\* Variant of Evictable: a note exactly the delay late is removed already.
EvictableInclusive(note, adjustedMusicTime) ==
    note.isProcessed /\ note.spawnTime <= adjustedMusicTime - EVICT_DELAY

\* The predicate of the remove_if
Evictable(note, adjustedMusicTime) ==
    note.isProcessed /\ note.spawnTime < adjustedMusicTime - EVICT_DELAY

\* Variant of Failed: an empty gauge is not yet a failure.
FailedBelowZero == hp < 0

\* Variant of Failed: the end of the song is looked at first.
FailedUnlessCompleted == hp <= 0 /\ ~(musicStatus = "Stopped" /\ activeNotes = << >>)

\* if (hp <= 0)
Failed == hp <= 0

\* music.getStatus() == sf::Music::Stopped && activeNotes.empty()
Completed == musicStatus = "Stopped" /\ activeNotes = << >>

\* Variant of NoteOfEvent: the key number is taken as the lane.
NoteOfEventRawKey(e) == Note(e.keyNumber, e.seconds)

\* The note made of a note-on event.
NoteOfEvent(e) == Note(e.keyNumber % LANE_COUNT, e.seconds)

\* The chart before the sort: one note for each note-on event of the joined
\* track, in the order of the events.
CollectNotes(events) ==
    LET isNoteOn(e) == e.isNoteOn
        on == SelectSeq(events, isNoteOn)
    IN  [i \in 1..Len(on) |-> NoteOfEvent(on[i])]

\* A sequence without its i-th element.
RemoveAt(q, i) == SubSeq(q, 1, i - 1) \o SubSeq(q, i + 1, Len(q))

\* Variant of StdSort: the comparison is a.spawnTime > b.spawnTime.
RECURSIVE StdSortDescending(_)
StdSortDescending(notes) ==
    IF notes = << >> THEN { << >> }
    ELSE LET most == {notes[i] : i \in {k \in DOMAIN notes :
                         \A j \in DOMAIN notes : notes[k].spawnTime >= notes[j].spawnTime}}
         IN  UNION { LET i == CHOOSE k \in DOMAIN notes : notes[k] = n
                     IN  {<<n>> \o rest : rest \in StdSortDescending(RemoveAt(notes, i))} : n \in most }

\* std::sort with the comparison a.spawnTime < b.spawnTime: the results it
\* may give.  The result is ordered by the comparison; the order of notes
\* that compare equal is not specified (the sort is not a stable one), so
\* every order of them is a possible result.
RECURSIVE StdSort(_)
StdSort(notes) ==
    IF notes = << >> THEN { << >> }
    ELSE LET least == {notes[i] : i \in {k \in DOMAIN notes :
                          \A j \in DOMAIN notes : notes[k].spawnTime <= notes[j].spawnTime}}
         IN  UNION { LET i == CHOOSE k \in DOMAIN notes : notes[k] = n
                     IN  {<<n>> \o rest : rest \in StdSort(RemoveAt(notes, i))} : n \in least }

\* loadChartFromMidi: the charts it may return for a file.
loadChartFromMidi(file) ==
    IF ~file.readable THEN {NoChart}
    ELSE StdSort(CollectNotes(file.events))

\* Variant of ChartLoadFailed: an empty chart is played.
ChartLoadFailedNever(ch) == FALSE

\* if (chart.empty()) { return -1; }
ChartLoadFailed(ch) == ch = << >>

\* Variant of IsNewRecord: the last score is stored, not the best one.
IsNewRecordAlways(s, oldHighScore) == TRUE

\* bool isNewRecord = score > oldHighScore;
IsNewRecord(s, oldHighScore) == s > oldHighScore

\* generateHighScoreKey
generateHighScoreKey(song, chartData) == song.title \o "-" \o chartData.difficultyName

\* ------------------------------------------------------------------------
\* Event handlers (the pollEvent loop)
\* ------------------------------------------------------------------------
\* Variant of Polling: events are handled at any point of the loop body.
PollingAnywhere == running

Polling == running /\ loopPc = "poll"

\* Variant of ResetSession: maxCombo is left as it is.
ResetSessionKeepsMax(ch) ==
    /\ score' = 0 /\ combo' = 0 /\ maxCombo' = maxCombo
    /\ perfectCount' = 0 /\ greatCount' = 0 /\ missCount' = 0
    /\ hp' = MAX_HP
    /\ nextNoteIndex' = 0
    /\ activeNotes' = << >>
    /\ judgeCount' = [i \in 1..Len(ch) |-> 0]
    /\ lastOutcome' = "NONE"

\* score = 0; ... activeNotes.clear(): the assignments of a session start
\* and of each Retry.
ResetSession(ch) ==
    /\ score' = 0 /\ combo' = 0 /\ maxCombo' = 0
    /\ perfectCount' = 0 /\ greatCount' = 0 /\ missCount' = 0
    /\ hp' = MAX_HP
    /\ nextNoteIndex' = 0
    /\ activeNotes' = << >>
    /\ judgeCount' = [i \in 1..Len(ch) |-> 0]
    /\ lastOutcome' = "NONE"

\* event.type == sf::Event::Closed
WindowClosed ==
    /\ Polling
    /\ running' = FALSE
    /\ UNCHANGED <<loopPc, gameState, progressVars, sessionVars, chart, musicVars,
                   config, songs, menuVars, highScores>>

TitleKey(key) ==
    /\ Polling /\ gameState = "TITLE"
    /\ selectedTitleMenuIndex' =
         IF key = "Down" THEN (selectedTitleMenuIndex + 1) % TITLE_MENU_SIZE
         ELSE IF key = "Up" THEN (selectedTitleMenuIndex + TITLE_MENU_SIZE - 1) % TITLE_MENU_SIZE
         ELSE selectedTitleMenuIndex
    /\ gameState' =
         IF key = "Enter" /\ selectedTitleMenuIndex = 0 THEN "SONG_SELECTION"
         ELSE IF key = "Enter" /\ selectedTitleMenuIndex = 1 THEN "OPTIONS"
         ELSE gameState
    /\ UNCHANGED <<running, loopPc, progressVars, sessionVars, chart, musicVars, config, songs,
                   selectedSongIndex, selectedDifficultyIndex, selectedPauseMenuIndex,
                   selectedResultsMenuIndex, selectedOptionsMenuIndex, highScores>>

\* Up, Down, Enter and Escape on the options screen.
OptionsKey(key) ==
    /\ Polling /\ gameState = "OPTIONS"
    /\ key \notin {"Left", "Right"}
    /\ selectedOptionsMenuIndex' =
         IF key = "Up" THEN (selectedOptionsMenuIndex + OPTION_MENU_SIZE - 1) % OPTION_MENU_SIZE
         ELSE IF key = "Down" THEN (selectedOptionsMenuIndex + 1) % OPTION_MENU_SIZE
         ELSE selectedOptionsMenuIndex
    /\ gameState' = IF key \in {"Enter", "Escape"} THEN "TITLE" ELSE gameState
    /\ UNCHANGED <<running, loopPc, progressVars, sessionVars, chart, musicVars, config, songs,
                   selectedSongIndex, selectedDifficultyIndex, selectedPauseMenuIndex,
                   selectedTitleMenuIndex, selectedResultsMenuIndex, highScores>>

\* Variant of AdjustedConfig: the new value is not clamped.
AdjustedConfigUnclamped(cfg, index, key, shift) ==
    LET sign == IF key = "Right" THEN 1 ELSE -1
    IN  IF index = 0 THEN [cfg EXCEPT !.noteSpeedMultiplier = @ + sign]
        ELSE IF index = 1 THEN [cfg EXCEPT !.bgmVolume = @ + 5 * sign]
        ELSE IF index = 2 THEN [cfg EXCEPT !.sfxVolume = @ + 5 * sign]
        ELSE IF index = 3 THEN [cfg EXCEPT !.audioOffset = @ + sign * (IF shift THEN 10 ELSE 1)]
        ELSE cfg

\* The configuration after Right or Left on the selected option: std::min
\* with the upper bound after an increment, std::max with the lower bound
\* after a decrement (the multiplier in tenths).
AdjustedConfig(cfg, index, key, shift) ==
    LET increment == IF shift THEN 10 ELSE 1
    IN  IF key = "Right"
          THEN IF index = 0 THEN [cfg EXCEPT !.noteSpeedMultiplier = Min(50, @ + 1)]
               ELSE IF index = 1 THEN [cfg EXCEPT !.bgmVolume = Min(100, @ + 5)]
               ELSE IF index = 2 THEN [cfg EXCEPT !.sfxVolume = Min(100, @ + 5)]
               ELSE IF index = 3 THEN [cfg EXCEPT !.audioOffset = Min(1000, @ + increment)]
               ELSE cfg
          ELSE IF index = 0 THEN [cfg EXCEPT !.noteSpeedMultiplier = Max(1, @ - 1)]
               ELSE IF index = 1 THEN [cfg EXCEPT !.bgmVolume = Max(0, @ - 5)]
               ELSE IF index = 2 THEN [cfg EXCEPT !.sfxVolume = Max(0, @ - 5)]
               ELSE IF index = 3 THEN [cfg EXCEPT !.audioOffset = Max(-1000, @ - increment)]
               ELSE cfg

\* Variant of OptionsAdjust: Left and Right also act on the pause screen.
OptionsAdjustWhilePaused(key, shift) ==
    /\ Polling /\ gameState \in {"OPTIONS", "PAUSED"}
    /\ key \in {"Left", "Right"}
    /\ config \in AdjustableConfigs
    /\ config' = AdjustedConfig(config, selectedOptionsMenuIndex, key, shift)
    /\ UNCHANGED <<running, loopPc, gameState, progressVars, sessionVars, chart, musicVars,
                   songs, menuVars, highScores>>

\* Right and Left on the options screen; shift is the state of the Shift
\* keys when the event is handled.
OptionsAdjust(key, shift) ==
    /\ Polling /\ gameState = "OPTIONS"
    /\ key \in {"Left", "Right"}
    /\ config \in AdjustableConfigs
    /\ config' = AdjustedConfig(config, selectedOptionsMenuIndex, key, shift)
    /\ UNCHANGED <<running, loopPc, gameState, progressVars, sessionVars, chart, musicVars,
                   songs, menuVars, highScores>>

SongSelectionKey(key) ==
    /\ Polling /\ gameState = "SONG_SELECTION"
    /\ selectedSongIndex' =
         IF key = "Down" THEN (selectedSongIndex + 1) % Len(songs)
         ELSE IF key = "Up" THEN (selectedSongIndex + Len(songs) - 1) % Len(songs)
         ELSE selectedSongIndex
    /\ selectedDifficultyIndex' = IF key = "Enter" THEN 0 ELSE selectedDifficultyIndex
    /\ gameState' =
         IF key = "Enter" THEN "DIFFICULTY_SELECTION"
         ELSE IF key = "Escape" THEN "TITLE"
         ELSE gameState
    /\ UNCHANGED <<running, loopPc, progressVars, sessionVars, chart, musicVars, config, songs,
                   selectedPauseMenuIndex, selectedTitleMenuIndex,
                   selectedResultsMenuIndex, selectedOptionsMenuIndex, highScores>>

\* Variant of DifficultyKey: Escape goes to the title screen, as it does on
\* the song screen.
DifficultyKeyEscapeToTitle(key) ==
    /\ Polling /\ gameState = "DIFFICULTY_SELECTION"
    /\ key # "Enter"
    /\ LET n == Len(songs[selectedSongIndex + 1].charts)
       IN  selectedDifficultyIndex' =
             IF key = "Down" THEN (selectedDifficultyIndex + 1) % n
             ELSE IF key = "Up" THEN (selectedDifficultyIndex + n - 1) % n
             ELSE selectedDifficultyIndex
    /\ gameState' = IF key = "Escape" THEN "TITLE" ELSE gameState
    /\ UNCHANGED <<running, loopPc, progressVars, sessionVars, chart, musicVars, config, songs,
                   selectedSongIndex, selectedPauseMenuIndex, selectedTitleMenuIndex,
                   selectedResultsMenuIndex, selectedOptionsMenuIndex, highScores>>

\* Up, Down and Escape on the difficulty screen.
DifficultyKey(key) ==
    /\ Polling /\ gameState = "DIFFICULTY_SELECTION"
    /\ key # "Enter"
    /\ LET n == Len(songs[selectedSongIndex + 1].charts)
       IN  selectedDifficultyIndex' =
             IF key = "Down" THEN (selectedDifficultyIndex + 1) % n
             ELSE IF key = "Up" THEN (selectedDifficultyIndex + n - 1) % n
             ELSE selectedDifficultyIndex
    /\ gameState' = IF key = "Escape" THEN "SONG_SELECTION" ELSE gameState
    /\ UNCHANGED <<running, loopPc, progressVars, sessionVars, chart, musicVars, config, songs,
                   selectedSongIndex, selectedPauseMenuIndex, selectedTitleMenuIndex,
                   selectedResultsMenuIndex, selectedOptionsMenuIndex, highScores>>

\* Enter on the difficulty screen: the start of a session, or the exit of
\* the program (return -1) when the chart is empty.
StartGame ==
    /\ Polling /\ gameState = "DIFFICULTY_SELECTION"
    /\ LET selectedSong == songs[selectedSongIndex + 1]
           selectedChart == selectedSong.charts[selectedDifficultyIndex + 1]
       IN  /\ chart' \in loadChartFromMidi(selectedChart.midi)
           /\ musicLen' = selectedSong.audioLen
           /\ IF ChartLoadFailed(chart')
                THEN /\ running' = FALSE
                     /\ musicStatus' = "Stopped" /\ musicPos' = 0
                     /\ UNCHANGED <<gameState, progressVars, sessionVars>>
                ELSE /\ gameState' = "PLAYING"
                     /\ ResetSession(chart')
                     /\ musicStatus' = "Playing" /\ musicPos' = 0
                     /\ UNCHANGED running
    /\ UNCHANGED <<loopPc, config, songs, menuVars, highScores>>

\* Variant of PlayingKey: the scan of the active notes does not stop at the
\* first note it judges.
PlayingKeyNoBreak(key) ==
    /\ Polling /\ gameState = "PLAYING"
    /\ IF key = "Escape"
         THEN /\ gameState' = "PAUSED"
              /\ MusicPause
              /\ UNCHANGED <<progressVars, sessionVars>>
         ELSE LET lane == LaneOfKey(key)
                  musicTime == JudgmentTime(musicPos, config)
                  hits == {j \in Scanned(activeNotes, lane) :
                              Classify(musicTime, activeNotes[j]) # "NONE"}
                  perfects == {j \in hits : Classify(musicTime, activeNotes[j]) = "PERFECT"}
                  greats == hits \ perfects
              IN  /\ score' = score + 100 * Cardinality(perfects) + 50 * Cardinality(greats)
                  /\ combo' = combo + Cardinality(hits)
                  /\ perfectCount' = perfectCount + Cardinality(perfects)
                  /\ greatCount' = greatCount + Cardinality(greats)
                  /\ hp' = Min(MAX_HP, hp + 2 * Cardinality(perfects) + Cardinality(greats))
                  /\ maxCombo' = Max(maxCombo, combo')
                  /\ activeNotes' = [j \in 1..Len(activeNotes) |->
                                        IF j \in hits THEN [activeNotes[j] EXCEPT !.isProcessed = TRUE]
                                        ELSE activeNotes[j]]
                  /\ judgeCount' = [i \in 1..Len(judgeCount) |->
                                      IF \E j \in hits : activeNotes[j].id = i
                                      THEN judgeCount[i] + 1 ELSE judgeCount[i]]
                  /\ lastOutcome' = IF lane < 0 THEN lastOutcome
                                    ELSE IF perfects # {} THEN "PERFECT"
                                    ELSE IF greats # {} THEN "GREAT" ELSE "NONE"
                  /\ UNCHANGED <<gameState, musicVars, missCount, nextNoteIndex>>
    /\ UNCHANGED <<running, loopPc, chart, config, songs, menuVars, highScores>>

\* A key press while PLAYING: Escape pauses, a lane key is judged against
\* the active notes at the playing offset read at the press, any other key
\* does nothing.  The code reads the playing offset anew for every scanned
\* note; the scan is taken to be short against the step of the offset, so
\* that all its reads give the same value.
PlayingKey(key) ==
    /\ Polling /\ gameState = "PLAYING"
    /\ IF key = "Escape"
         THEN /\ gameState' = "PAUSED"
              /\ MusicPause
              /\ UNCHANGED <<progressVars, sessionVars>>
         ELSE LET lane == LaneOfKey(key)
                  musicTime == JudgmentTime(musicPos, config)
                  h == HitIndex(activeNotes, lane, musicTime)
                  currentJudgment == IF h = 0 THEN "NONE" ELSE Classify(musicTime, activeNotes[h])
              IN  /\ score' = ScoreAfter(currentJudgment, score)
                  /\ combo' = ComboAfter(currentJudgment, combo)
                  /\ perfectCount' = perfectCount + (IF currentJudgment = "PERFECT" THEN 1 ELSE 0)
                  /\ greatCount' = greatCount + (IF currentJudgment = "GREAT" THEN 1 ELSE 0)
                  /\ hp' = IF currentJudgment = "PERFECT" THEN Min(MAX_HP, hp + 2)
                           ELSE IF currentJudgment = "GREAT" THEN Min(MAX_HP, hp + 1)
                           ELSE hp
                  /\ maxCombo' = IF Scanned(activeNotes, lane) # {}
                                 THEN Max(maxCombo, combo') ELSE maxCombo
                  /\ activeNotes' = IF h = 0 THEN activeNotes
                                    ELSE [activeNotes EXCEPT ![h].isProcessed = TRUE]
                  /\ judgeCount' = IF h = 0 THEN judgeCount
                                   ELSE [judgeCount EXCEPT ![activeNotes[h].id] = @ + 1]
                  /\ lastOutcome' = IF lane >= 0 THEN currentJudgment ELSE lastOutcome
                  /\ UNCHANGED <<gameState, musicVars, missCount, nextNoteIndex>>
    /\ UNCHANGED <<running, loopPc, chart, config, songs, menuVars, highScores>>

PausedKey(key) ==
    /\ Polling /\ gameState = "PAUSED"
    /\ selectedPauseMenuIndex' =
         IF key = "Down" THEN (selectedPauseMenuIndex + 1) % PAUSE_MENU_SIZE
         ELSE IF key = "Up" THEN (selectedPauseMenuIndex + PAUSE_MENU_SIZE - 1) % PAUSE_MENU_SIZE
         ELSE selectedPauseMenuIndex
    /\ IF key = "Escape" \/ (key = "Enter" /\ selectedPauseMenuIndex = 0)
         THEN /\ gameState' = "PLAYING"
              /\ MusicPlay
              /\ UNCHANGED <<progressVars, sessionVars>>
       ELSE IF key = "Enter" /\ selectedPauseMenuIndex = 1
         THEN /\ gameState' = "PLAYING"
              /\ ResetSession(chart)
              /\ MusicRestart
       ELSE IF key = "Enter" /\ selectedPauseMenuIndex = 2
         THEN /\ gameState' = "SONG_SELECTION"
              /\ MusicStop
              /\ UNCHANGED <<progressVars, sessionVars>>
       ELSE UNCHANGED <<gameState, musicVars, progressVars, sessionVars>>
    /\ UNCHANGED <<running, loopPc, chart, config, songs, selectedSongIndex,
                   selectedDifficultyIndex, selectedTitleMenuIndex,
                   selectedResultsMenuIndex, selectedOptionsMenuIndex, highScores>>

\* The game-over menu shares selectedPauseMenuIndex with the pause menu.
GameoverKey(key) ==
    /\ Polling /\ gameState = "GAMEOVER"
    /\ selectedPauseMenuIndex' =
         IF key = "Down" THEN (selectedPauseMenuIndex + 1) % GAMEOVER_MENU_SIZE
         ELSE IF key = "Up" THEN (selectedPauseMenuIndex + GAMEOVER_MENU_SIZE - 1) % GAMEOVER_MENU_SIZE
         ELSE selectedPauseMenuIndex
    /\ IF key = "Enter" /\ selectedPauseMenuIndex = 0
         THEN /\ gameState' = "PLAYING"
              /\ ResetSession(chart)
              /\ MusicRestart
       ELSE IF key = "Enter" /\ selectedPauseMenuIndex = 1
         THEN /\ gameState' = "SONG_SELECTION"
              /\ MusicStop
              /\ UNCHANGED <<progressVars, sessionVars>>
       ELSE UNCHANGED <<gameState, musicVars, progressVars, sessionVars>>
    /\ UNCHANGED <<running, loopPc, chart, config, songs, selectedSongIndex,
                   selectedDifficultyIndex, selectedTitleMenuIndex,
                   selectedResultsMenuIndex, selectedOptionsMenuIndex, highScores>>

ResultsKey(key) ==
    /\ Polling /\ gameState = "RESULTS"
    /\ selectedResultsMenuIndex' =
         IF key = "Right" THEN (selectedResultsMenuIndex + 1) % RESULTS_MENU_SIZE
         ELSE IF key = "Left" THEN (selectedResultsMenuIndex + RESULTS_MENU_SIZE - 1) % RESULTS_MENU_SIZE
         ELSE selectedResultsMenuIndex
    /\ IF key = "Enter" /\ selectedResultsMenuIndex = 0
         THEN /\ gameState' = "PLAYING"
              /\ ResetSession(chart)
              /\ MusicRestart
       ELSE IF key = "Enter" /\ selectedResultsMenuIndex = 1
         THEN /\ gameState' = "SONG_SELECTION"
              /\ UNCHANGED <<musicVars, progressVars, sessionVars>>
       ELSE UNCHANGED <<gameState, musicVars, progressVars, sessionVars>>
    /\ UNCHANGED <<running, loopPc, chart, config, songs, selectedSongIndex,
                   selectedDifficultyIndex, selectedPauseMenuIndex,
                   selectedTitleMenuIndex, selectedOptionsMenuIndex, highScores>>

\* ------------------------------------------------------------------------
\* The update of the PLAYING state
\* ------------------------------------------------------------------------
\* Variant of UpdatePlaying: the update also runs while the game is paused.
UpdateWhilePaused ==
    /\ Polling /\ gameState \in {"PLAYING", "PAUSED"}
    /\ LET adjustedMusicTime == JudgmentTime(musicPos, config)
           cursor == AdmitUpTo(chart, nextNoteIndex, adjustedMusicTime, config)
           spawned == activeNotes \o Admitted(chart, nextNoteIndex, cursor)
           late == {j \in 1..Len(spawned) : TimedOut(spawned[j], adjustedMusicTime)}
           judged == [j \in 1..Len(spawned) |->
                        IF j \in late THEN [spawned[j] EXCEPT !.isProcessed = TRUE]
                        ELSE spawned[j]]
           keep(note) == ~Evictable(note, adjustedMusicTime)
       IN  /\ nextNoteIndex' = cursor
           /\ combo' = IF late = {} THEN combo ELSE 0
           /\ missCount' = missCount + Cardinality(late)
           /\ hp' = hp - 10 * Cardinality(late)
           /\ activeNotes' = SelectSeq(judged, keep)
           /\ judgeCount' = [i \in 1..Len(judgeCount) |->
                               IF \E j \in late : spawned[j].id = i
                               THEN judgeCount[i] + 1 ELSE judgeCount[i]]
    /\ loopPc' = "check"
    /\ UNCHANGED <<running, gameState, score, maxCombo, perfectCount, greatCount,
                   lastOutcome, chart, musicVars, config, songs, menuVars, highScores>>

\* Variant of UpdatePlaying: a timeout is not counted as a Miss.
UpdateMissUncounted ==
    /\ Polling /\ gameState = "PLAYING"
    /\ LET adjustedMusicTime == JudgmentTime(musicPos, config)
           cursor == AdmitUpTo(chart, nextNoteIndex, adjustedMusicTime, config)
           spawned == activeNotes \o Admitted(chart, nextNoteIndex, cursor)
           late == {j \in 1..Len(spawned) : TimedOut(spawned[j], adjustedMusicTime)}
           judged == [j \in 1..Len(spawned) |->
                        IF j \in late THEN [spawned[j] EXCEPT !.isProcessed = TRUE]
                        ELSE spawned[j]]
           keep(note) == ~Evictable(note, adjustedMusicTime)
       IN  /\ nextNoteIndex' = cursor
           /\ combo' = IF late = {} THEN combo ELSE 0
           /\ missCount' = missCount
           /\ hp' = hp - 10 * Cardinality(late)
           /\ activeNotes' = SelectSeq(judged, keep)
           /\ judgeCount' = [i \in 1..Len(judgeCount) |->
                               IF \E j \in late : spawned[j].id = i
                               THEN judgeCount[i] + 1 ELSE judgeCount[i]]
    /\ loopPc' = "check"
    /\ UNCHANGED <<running, gameState, score, maxCombo, perfectCount, greatCount,
                   lastOutcome, chart, musicVars, config, songs, menuVars, highScores>>

\* Admission, timeout misses and eviction, at the playing offset read at the
\* start of the update.
UpdatePlaying ==
    /\ Polling /\ gameState = "PLAYING"
    /\ LET adjustedMusicTime == JudgmentTime(musicPos, config)
           cursor == AdmitUpTo(chart, nextNoteIndex, adjustedMusicTime, config)
           spawned == activeNotes \o Admitted(chart, nextNoteIndex, cursor)
           late == {j \in 1..Len(spawned) : TimedOut(spawned[j], adjustedMusicTime)}
           judged == [j \in 1..Len(spawned) |->
                        IF j \in late THEN [spawned[j] EXCEPT !.isProcessed = TRUE]
                        ELSE spawned[j]]
           keep(note) == ~Evictable(note, adjustedMusicTime)
       IN  /\ nextNoteIndex' = cursor
           /\ combo' = IF late = {} THEN combo ELSE 0
           /\ missCount' = missCount + Cardinality(late)
           /\ hp' = hp - 10 * Cardinality(late)
           /\ activeNotes' = SelectSeq(judged, keep)
           /\ judgeCount' = [i \in 1..Len(judgeCount) |->
                               IF \E j \in late : spawned[j].id = i
                               THEN judgeCount[i] + 1 ELSE judgeCount[i]]
    /\ loopPc' = "check"
    /\ UNCHANGED <<running, gameState, score, maxCombo, perfectCount, greatCount,
                   lastOutcome, chart, musicVars, config, songs, menuVars, highScores>>

\* The detection of game over and of the end of the song, at the end of
\* the update.
TerminalCheck ==
    /\ running /\ loopPc = "check"
    /\ loopPc' = "poll"
    /\ IF Failed
         THEN /\ gameState' = "GAMEOVER"
              /\ MusicStop
              /\ UNCHANGED highScores
       ELSE IF Completed
         THEN /\ gameState' = "RESULTS"
              /\ MusicStop
              /\ LET selectedSong == songs[selectedSongIndex + 1]
                     selectedChart == selectedSong.charts[selectedDifficultyIndex + 1]
                     key == generateHighScoreKey(selectedSong, selectedChart)
                     oldHighScore == IF key \in DOMAIN highScores THEN highScores[key] ELSE 0
                 IN  highScores' =
                       IF IsNewRecord(score, oldHighScore)
                       THEN [k \in DOMAIN highScores \cup {key} |->
                               IF k = key THEN score ELSE highScores[k]]
                       ELSE highScores
       ELSE UNCHANGED <<gameState, musicVars, highScores>>
    /\ UNCHANGED <<running, progressVars, sessionVars, chart, config, songs, menuVars>>

\* ------------------------------------------------------------------------
\* Specification
\* ------------------------------------------------------------------------
Next ==
    \/ WindowClosed
    \/ AudioAdvance
    \/ \E key \in Keys : TitleKey(key)
    \/ \E key \in {"Enter", "Escape"} : OptionsKey(key)
    \/ \E key \in Keys : SongSelectionKey(key)
    \/ \E key \in Keys : DifficultyKey(key)
    \/ StartGame
    \/ \E key \in Keys : PlayingKey(key)
    \/ \E key \in Keys : PausedKey(key)
    \/ \E key \in Keys : GameoverKey(key)
    \/ \E key \in Keys : ResultsKey(key)
    \/ UpdatePlaying
    \/ TerminalCheck

Spec == Init /\ [][Next]_vars

SpecScores == InitScores /\ [][Next]_vars

SpecEdge == InitEdge /\ [][Next]_vars

\* The program up to the load of a chart: the menus and the session start.
NextLoader ==
    \/ WindowClosed
    \/ \E key \in Keys : TitleKey(key)
    \/ \E key \in {"Enter", "Escape"} : OptionsKey(key)
    \/ \E key \in Keys : SongSelectionKey(key)
    \/ \E key \in Keys : DifficultyKey(key)
    \/ StartGame

SpecLoader == InitLoader /\ [][NextLoader]_vars

\* The title and the options screen, with the adjustments of the options.
NextOptions ==
    \/ WindowClosed
    \/ \E key \in Keys : TitleKey(key)
    \/ \E key \in Keys : OptionsKey(key)
    \/ \E key \in {"Left", "Right"}, shift \in BOOLEAN : OptionsAdjust(key, shift)

SpecOptions == InitOptions /\ [][NextOptions]_vars

\* The whole program, with the adjustments of the options.
NextCalibration ==
    \/ WindowClosed
    \/ AudioAdvance
    \/ \E key \in Keys : TitleKey(key)
    \/ \E key \in {"Up", "Enter", "Escape"} : OptionsKey(key)
    \/ \E key \in {"Left", "Right"}, shift \in BOOLEAN : OptionsAdjust(key, shift)
    \/ \E key \in Keys : SongSelectionKey(key)
    \/ \E key \in Keys : DifficultyKey(key)
    \/ StartGame
    \/ \E key \in {"Escape", LANE_KEYS[1]} : PlayingKey(key)
    \/ \E key \in {"Down", "Enter", "Escape"} : PausedKey(key)
    \/ \E key \in {"Down", "Enter"} : GameoverKey(key)
    \/ \E key \in {"Right", "Enter"} : ResultsKey(key)
    \/ UpdatePlaying
    \/ TerminalCheck

SpecCalibration == InitCalibration /\ [][NextCalibration]_vars

\* The program on charts too short for a game over.
NextKeys ==
    \/ WindowClosed
    \/ AudioAdvance
    \/ \E key \in Keys : TitleKey(key)
    \/ \E key \in {"Enter", "Escape"} : OptionsKey(key)
    \/ \E key \in Keys : SongSelectionKey(key)
    \/ \E key \in Keys : DifficultyKey(key)
    \/ StartGame
    \/ \E key \in Keys : PlayingKey(key)
    \/ \E key \in Keys : PausedKey(key)
    \/ \E key \in Keys : ResultsKey(key)
    \/ UpdatePlaying
    \/ TerminalCheck

SpecKeys == InitKeys /\ [][NextKeys]_vars

\* The update has nothing to do at the playing offset of this state: no note
\* to admit, to time out or to evict.
FrameDone ==
    /\ nextNoteIndex = AdmitUpTo(chart, nextNoteIndex, JudgmentTime(musicPos, config), config)
    /\ \A j \in DOMAIN activeNotes :
          /\ ~TimedOut(activeNotes[j], JudgmentTime(musicPos, config))
          /\ ~Evictable(activeNotes[j], JudgmentTime(musicPos, config))

\* The game loop when its frames are not slower than the steps of the
\* playing offset: the offset only advances when the update of a frame has
\* seen its present value.
AudioAdvanceInFrame == FrameDone /\ AudioAdvance

NextLive ==
    \/ WindowClosed
    \/ AudioAdvanceInFrame
    \/ \E key \in Keys : TitleKey(key)
    \/ \E key \in {"Enter", "Escape"} : OptionsKey(key)
    \/ \E key \in Keys : SongSelectionKey(key)
    \/ \E key \in Keys : DifficultyKey(key)
    \/ StartGame
    \/ \E key \in Keys : PlayingKey(key)
    \/ \E key \in Keys : PausedKey(key)
    \/ \E key \in Keys : GameoverKey(key)
    \/ \E key \in Keys : ResultsKey(key)
    \/ UpdatePlaying
    \/ TerminalCheck

\* The frames keep running and the audio keeps playing: the update and the
\* terminal check of a frame are not put off forever, and a stream that is
\* playing again and again advances.
SpecLive ==
    /\ InitLive /\ [][NextLive]_vars
    /\ WF_vars(UpdatePlaying) /\ WF_vars(TerminalCheck) /\ SF_vars(AudioAdvanceInFrame)

\* ------------------------------------------------------------------------
\* Vocabulary of the properties
\* ------------------------------------------------------------------------
RECURSIVE SumSeq(_)
SumSeq(q) == IF q = << >> THEN 0 ELSE q[1] + SumSeq(Tail(q))

\* The judgment clock a key press or an update would read in this state.
Clock == JudgmentTime(musicPos, config)

\* A step that handles a press of the key of this lane while PLAYING.
LanePress(lane) == PlayingKey(LANE_KEYS[lane + 1])

\* Chart indices whose active copy is marked judged by the step.
NewlyJudged ==
    {activeNotes[j].id : j \in {k \in DOMAIN activeNotes :
        /\ ~activeNotes[k].isProcessed
        /\ \E m \in DOMAIN activeNotes' :
             activeNotes'[m].id = activeNotes[k].id /\ activeNotes'[m].isProcessed}}

\* Active unjudged notes of a lane inside the Great tolerance of the clock.
InTolerance(lane) ==
    {j \in DOMAIN activeNotes :
        /\ ~activeNotes[j].isProcessed
        /\ activeNotes[j].laneIndex = lane
        /\ Abs(Clock - activeNotes[j].spawnTime) < GREAT_WINDOW}

\* ------------------------------------------------------------------------
\* C1: within a session every chart note is judged at most once: its judged
\* flag never goes back from true to false, the flag of an active note is
\* set exactly when the note has been judged, no note is judged twice (by
\* input and by timeout, in any order), and the three tier counters together
\* count every judged note once.
\* ------------------------------------------------------------------------
C1_FlagsAgree ==
    \A j \in DOMAIN activeNotes :
        activeNotes[j].isProcessed <=> judgeCount[activeNotes[j].id] = 1

C1_JudgedAtMostOnce ==
    /\ [](\A i \in DOMAIN judgeCount : judgeCount[i] <= 1)
    /\ [](C1_FlagsAgree)
    /\ [](perfectCount + greatCount + missCount = SumSeq(judgeCount))
    /\ [][\A j \in DOMAIN activeNotes : \A m \in DOMAIN activeNotes' :
            (activeNotes[j].isProcessed /\ activeNotes'[m].id = activeNotes[j].id)
                => activeNotes'[m].isProcessed]_vars

\* A note hit by input is still active when an update runs after its
\* timeout time: the update has not counted it as a Miss.
C1_Witness ==
    /\ loopPc = "check"
    /\ missCount = 0
    /\ perfectCount + greatCount = 1
    /\ \E j \in DOMAIN activeNotes :
         activeNotes[j].isProcessed /\ Clock - activeNotes[j].spawnTime > GREAT_WINDOW

\* ------------------------------------------------------------------------
\* C2: a key press never judges a note against the wrong input: every note
\* that a press of a lane key marks judged was unjudged before the press,
\* is of the lane of the key and lies less than GREAT_WINDOW from the clock
\* of the press; a key that is no lane key judges nothing.
\* ------------------------------------------------------------------------
C2_RightInput ==
    [][\A key \in Keys : PlayingKey(key) =>
          /\ \A i \in DOMAIN judgeCount :
                judgeCount'[i] # judgeCount[i] => i \in NewlyJudged
          /\ \A j \in DOMAIN activeNotes :
                activeNotes[j].id \in NewlyJudged =>
                   /\ judgeCount[activeNotes[j].id] = 0
                   /\ activeNotes[j].laneIndex = LaneOfKey(key)
                   /\ Abs(Clock - activeNotes[j].spawnTime) < GREAT_WINDOW]_vars

\* The lane 2 note has been hit while both lane 1 notes, active and inside
\* the tolerance as well, are left unjudged.
C2_Witness ==
    /\ gameState = "PLAYING" /\ loopPc = "poll"
    /\ perfectCount + greatCount = 1 /\ missCount = 0
    /\ \E j \in DOMAIN activeNotes : activeNotes[j].laneIndex = 2 /\ activeNotes[j].isProcessed
    /\ Cardinality(InTolerance(1)) = 2

\* ------------------------------------------------------------------------
\* C3: in every reachable state the HP gauge lies in [0, MAX_HP], whatever
\* sequence of Perfect, Great and timeout Miss outcomes has been applied,
\* several misses of one update included.
\* ------------------------------------------------------------------------
C3_HealthClamped == 0 <= hp /\ hp <= MAX_HP

\* ------------------------------------------------------------------------
\* C4: the session ends at once when the HP gauge is empty.  The gauge only
\* becomes empty in the update of a PLAYING frame; the terminal check of that
\* same update then switches to GAMEOVER, whatever notes are left unadmitted
\* or unjudged; between the two nothing is judged, and outside of that
\* moment no session is being played or paused with an empty gauge, so that
\* no key press is judged and no timeout is counted with hp <= 0.
\* ------------------------------------------------------------------------
C4_FailsAtOnce ==
    /\ [][(hp > 0 /\ hp' <= 0) =>
            (gameState = "PLAYING" /\ loopPc = "poll" /\ loopPc' = "check")]_vars
    /\ [][(loopPc = "check" /\ hp <= 0 /\ loopPc' = "poll") =>
            (gameState = "PLAYING" /\ gameState' = "GAMEOVER")]_vars
    /\ [](hp <= 0 => (loopPc = "check" \/ gameState \notin {"PLAYING", "PAUSED"}))
    /\ [][(hp <= 0 /\ hp' <= 0) =>
            UNCHANGED <<progressVars, nextNoteIndex, activeNotes, judgeCount>>]_vars

\* Ten misses from a full gauge: GAMEOVER with hp 0 while the last note of
\* the chart has not been admitted.
C4_Witness ==
    /\ gameState = "GAMEOVER"
    /\ hp = 0 /\ missCount = 10
    /\ nextNoteIndex < Len(chart)

\* ------------------------------------------------------------------------
\* C5: failure has priority over completion.  When the terminal check runs
\* with hp <= 0 while the audio is stopped and no note is active, the game
\* goes to GAMEOVER, not to RESULTS, and the high scores are left as they
\* are; RESULTS is never shown for a session whose gauge is empty.
\* ------------------------------------------------------------------------
C5_FailureFirst ==
    /\ [][(loopPc = "check" /\ loopPc' = "poll" /\ hp <= 0
             /\ musicStatus = "Stopped" /\ activeNotes = << >>) =>
            (gameState' = "GAMEOVER" /\ highScores' = highScores)]_vars
    /\ [](gameState = "RESULTS" => hp > 0)

\* The terminal check is about to run with an empty gauge, the audio at its
\* end, no active note and a score above the stored high score.
C5_Witness ==
    /\ gameState = "PLAYING" /\ loopPc = "check"
    /\ hp = 0
    /\ musicStatus = "Stopped" /\ activeNotes = << >>
    /\ score > 0 /\ highScores = << >>

\* ------------------------------------------------------------------------
\* C6: the switch from PLAYING to RESULTS is only made when every note of
\* the chart has been admitted (nextNoteIndex = chart.size()), no note is
\* active and the audio has stopped.
\* ------------------------------------------------------------------------
C6_CompletionOnlyWhenExhausted ==
    [][(gameState = "PLAYING" /\ gameState' = "RESULTS") =>
          /\ nextNoteIndex = Len(chart)
          /\ activeNotes = << >>
          /\ musicStatus = "Stopped"]_vars

\* ------------------------------------------------------------------------
\* C7 as the specification states it: the scheduler of a frame (admission
\* and timeout) runs before the key presses of that frame are judged, and
\* the terminal check follows: a key press is handled between the update
\* and the terminal check.
\* ------------------------------------------------------------------------
C7_SchedulerBeforeInputs ==
    [][(\E key \in Keys : PlayingKey(key)) => loopPc = "check"]_vars

\* ------------------------------------------------------------------------
\* C7, corrected: in every frame the key presses are judged first, then the
\* scheduler runs (admission, timeout, eviction), then the terminal
\* conditions are evaluated.  A hit is only scored before the update of its
\* frame; the cursor and the Miss counter only move in the update; the
\* switch to GAMEOVER or RESULTS is only made after that update; and
\* between the update and the terminal check no note is judged.
\* ------------------------------------------------------------------------
C7_InputsBeforeScheduler ==
    /\ [][(perfectCount' > perfectCount \/ greatCount' > greatCount) =>
            (loopPc = "poll" /\ loopPc' = "poll")]_vars
    /\ [][(nextNoteIndex' > nextNoteIndex \/ missCount' > missCount) =>
            (loopPc = "poll" /\ loopPc' = "check")]_vars
    /\ [][(gameState = "PLAYING" /\ gameState' \in {"GAMEOVER", "RESULTS"}) =>
            (loopPc = "check" /\ loopPc' = "poll")]_vars
    /\ [][loopPc = "check" =>
            UNCHANGED <<progressVars, nextNoteIndex, activeNotes, judgeCount>>]_vars

\* An update has run after a key press was judged and has counted a Miss;
\* its terminal check is still to come.
C7_Witness ==
    /\ gameState = "PLAYING" /\ loopPc = "check"
    /\ lastOutcome # "NONE"
    /\ perfectCount + greatCount >= 1
    /\ missCount >= 1 /\ combo = 0

\* ------------------------------------------------------------------------
\* C8: a press of a lane key is classified against the unjudged active
\* notes of that lane by diff = |clock - spawnTime|: a note judged with
\* diff < PERFECT_WINDOW counts as Perfect (score + 100, combo + 1), a note
\* judged with PERFECT_WINDOW <= diff < GREAT_WINDOW counts as Great
\* (score + 50, combo + 1), a note with diff >= GREAT_WINDOW is never judged
\* by the press and stays active and unjudged, and it does not stop the scan:
\* the press judges a note whenever some unjudged note of the lane has
\* diff < GREAT_WINDOW.
\* ------------------------------------------------------------------------
C8_Classification ==
    [][\A lane \in 0..(LANE_COUNT - 1) : LanePress(lane) =>
          /\ \A j \in DOMAIN activeNotes :
               LET note == activeNotes[j]
                   diff == Abs(Clock - note.spawnTime)
               IN  /\ (note.id \in NewlyJudged /\ diff < PERFECT_WINDOW) =>
                         /\ perfectCount' = perfectCount + 1 /\ greatCount' = greatCount
                         /\ score' = score + 100 /\ combo' = combo + 1
                         /\ lastOutcome' = "PERFECT"
                   /\ (note.id \in NewlyJudged /\ diff >= PERFECT_WINDOW) =>
                         /\ diff < GREAT_WINDOW
                         /\ greatCount' = greatCount + 1 /\ perfectCount' = perfectCount
                         /\ score' = score + 50 /\ combo' = combo + 1
                         /\ lastOutcome' = "GREAT"
                   /\ (~note.isProcessed /\ diff >= GREAT_WINDOW) =>
                         /\ note.id \notin NewlyJudged
                         /\ \E m \in DOMAIN activeNotes' : activeNotes'[m] = note
          /\ InTolerance(lane) # {} => Cardinality(NewlyJudged) = 1]_vars

\* The second lane 1 note has been judged Perfect (score 100, combo 1) by a
\* press that has passed over the first one, which is out of tolerance and
\* is still unjudged.
C8_Witness ==
    /\ gameState = "PLAYING"
    /\ perfectCount = 1 /\ greatCount = 0 /\ missCount = 0
    /\ score = 100 /\ combo = 1
    /\ \E j, k \in DOMAIN activeNotes :
         /\ activeNotes[j].id = 1 /\ ~activeNotes[j].isProcessed
         /\ activeNotes[k].id = 3 /\ activeNotes[k].isProcessed
         /\ activeNotes[j].laneIndex = activeNotes[k].laneIndex

\* ------------------------------------------------------------------------
\* C9: the active notes are always kept in chart order, and when several
\* unjudged notes of the pressed lane are inside the Great tolerance the
\* press judges the one with the smallest chart index, which has the
\* earliest spawn time; the other ones stay active and unjudged.
\* ------------------------------------------------------------------------
C9_EarliestFirst ==
    /\ [](\A j, k \in DOMAIN activeNotes : j < k => activeNotes[j].id < activeNotes[k].id)
    /\ [][\A lane \in 0..(LANE_COUNT - 1) : (LanePress(lane) /\ InTolerance(lane) # {}) =>
            \E j \in InTolerance(lane) :
               /\ NewlyJudged = {activeNotes[j].id}
               /\ \A k \in InTolerance(lane) \ {j} :
                    /\ activeNotes[j].id < activeNotes[k].id
                    /\ activeNotes[j].spawnTime <= activeNotes[k].spawnTime
                    /\ \E m \in DOMAIN activeNotes' : activeNotes'[m] = activeNotes[k]]_vars

\* The first lane 1 note has been judged while the second one, inside the
\* tolerance of the same clock, is unjudged and can still be hit.
C9_Witness ==
    /\ gameState = "PLAYING" /\ loopPc = "poll"
    /\ missCount = 0 /\ perfectCount + greatCount = 1
    /\ \E j, k \in DOMAIN activeNotes :
         /\ activeNotes[j].id = 1 /\ activeNotes[j].isProcessed
         /\ activeNotes[k].id = 3 /\ k \in InTolerance(activeNotes[j].laneIndex)
         /\ Abs(Clock - activeNotes[j].spawnTime) < GREAT_WINDOW

\* ------------------------------------------------------------------------
\* C10: a press of a lane key while no unjudged active note of that lane is
\* inside the Great tolerance gives None and changes nothing: score, combo,
\* maxCombo, the three counters, hp, the judged flags, the active notes and
\* the cursor are as before.
\* ------------------------------------------------------------------------
C10_NoneHasNoEffect ==
    [][\A lane \in 0..(LANE_COUNT - 1) : (LanePress(lane) /\ InTolerance(lane) = {}) =>
          /\ UNCHANGED <<score, combo, maxCombo, perfectCount, greatCount, missCount, hp>>
          /\ UNCHANGED <<activeNotes, nextNoteIndex, judgeCount>>
          /\ lastOutcome' = "NONE"]_vars

\* A press has given None after a Perfect hit, with an unjudged note of
\* lane 1 active but out of tolerance: the hit is all that is counted.
C10_Witness ==
    /\ gameState = "PLAYING" /\ loopPc = "poll"
    /\ lastOutcome = "NONE"
    /\ perfectCount = 1 /\ greatCount = 0 /\ missCount = 0
    /\ score = 100 /\ combo = 1 /\ maxCombo = 1 /\ hp = MAX_HP
    /\ \E j \in DOMAIN activeNotes :
         /\ ~activeNotes[j].isProcessed /\ activeNotes[j].laneIndex = 1
         /\ Abs(Clock - activeNotes[j].spawnTime) >= GREAT_WINDOW

\* ------------------------------------------------------------------------
\* Vocabulary of the properties about sessions
\* ------------------------------------------------------------------------
\* A step that starts a session from the difficulty screen.
SessionStart == StartGame /\ gameState' = "PLAYING"

\* A step that takes Retry in the pause, game-over or results menu.
RetryStep ==
    \/ PausedKey("Enter") /\ gameState = "PAUSED" /\ selectedPauseMenuIndex = 1
    \/ GameoverKey("Enter") /\ gameState = "GAMEOVER" /\ selectedPauseMenuIndex = 0
    \/ ResultsKey("Enter") /\ gameState = "RESULTS" /\ selectedResultsMenuIndex = 0

\* Active notes of a lane that are judged already and lie inside the Great
\* tolerance of the clock.
JudgedInTolerance(lane) ==
    {j \in DOMAIN activeNotes :
        /\ activeNotes[j].isProcessed
        /\ activeNotes[j].laneIndex = lane
        /\ Abs(Clock - activeNotes[j].spawnTime) < GREAT_WINDOW}

\* ------------------------------------------------------------------------
\* C11: judging is idempotent on a judged note.  No key press changes the
\* flag or the judgment count of a note that is judged already, and a press
\* of a lane key at a clock that only matches notes of the lane that are
\* judged already (the same lane and time as the press that judged them)
\* gives None and changes neither score, combo, maxCombo, the tier counters,
\* hp nor any judged flag.
\* ------------------------------------------------------------------------
C11_Idempotent ==
    /\ [][\A key \in Keys : PlayingKey(key) =>
            \A j \in DOMAIN activeNotes : activeNotes[j].isProcessed =>
               /\ judgeCount'[activeNotes[j].id] = judgeCount[activeNotes[j].id]
               /\ \E m \in DOMAIN activeNotes' : activeNotes'[m] = activeNotes[j]]_vars
    /\ [][\A lane \in 0..(LANE_COUNT - 1) :
            (LanePress(lane) /\ JudgedInTolerance(lane) # {} /\ InTolerance(lane) = {}) =>
               /\ lastOutcome' = "NONE"
               /\ UNCHANGED <<progressVars, activeNotes, judgeCount>>]_vars

\* The lane 2 note has been judged Great and a later press at the same
\* clock has given None: the hit is counted once.
C11_Witness ==
    /\ gameState = "PLAYING" /\ loopPc = "poll"
    /\ lastOutcome = "NONE"
    /\ JudgedInTolerance(2) # {} /\ InTolerance(2) = {}
    /\ greatCount = 1 /\ perfectCount = 0 /\ missCount = 0
    /\ score = 50 /\ combo = 1 /\ SumSeq(judgeCount) = 1

\* ------------------------------------------------------------------------
\* C12: every update of the PLAYING state, at the clock t it reads, counts
\* each unjudged active note (the ones it has just admitted included) with
\* t - spawnTime > GREAT_WINDOW as one Miss: missCount + 1 and hp - 10 per
\* such note, combo = 0 if there is any, combo as before otherwise; it
\* judges no other note, so a note with t - spawnTime <= GREAT_WINDOW is not
\* timed out; and after the update no unjudged active note has
\* t - spawnTime > GREAT_WINDOW.
\* ------------------------------------------------------------------------
C12_Timeout ==
    [][(gameState = "PLAYING" /\ loopPc = "poll" /\ loopPc' = "check") =>
          LET lateActive == {activeNotes[j].id : j \in {k \in DOMAIN activeNotes :
                                ~activeNotes[k].isProcessed
                                /\ Clock - activeNotes[k].spawnTime > GREAT_WINDOW}}
              lateAdmitted == {i \in (nextNoteIndex + 1)..nextNoteIndex' :
                                Clock - chart[i].spawnTime > GREAT_WINDOW}
              late == lateActive \cup lateAdmitted
          IN  /\ missCount' = missCount + Cardinality(late)
              /\ hp' = hp - 10 * Cardinality(late)
              /\ combo' = IF late = {} THEN combo ELSE 0
              /\ \A i \in DOMAIN judgeCount :
                    judgeCount'[i] = judgeCount[i] + (IF i \in late THEN 1 ELSE 0)
              /\ \A m \in DOMAIN activeNotes' :
                    activeNotes'[m].isProcessed <=>
                        (activeNotes'[m].id \in late \/ judgeCount[activeNotes'[m].id] = 1)
              /\ \A m \in DOMAIN activeNotes' :
                    ~activeNotes'[m].isProcessed =>
                        Clock - activeNotes'[m].spawnTime <= GREAT_WINDOW]_vars

\* An update has counted the lane 2 note, which was not hit in time, as
\* the only Miss of the session (combo 0, hp 90) while two other notes had
\* been hit.
C12_Witness ==
    /\ gameState = "PLAYING" /\ loopPc = "check"
    /\ missCount = 1 /\ combo = 0 /\ hp = MAX_HP - 10
    /\ perfectCount + greatCount = 2
    /\ judgeCount[2] = 1
    /\ \E j \in DOMAIN activeNotes :
         /\ activeNotes[j].id = 2 /\ activeNotes[j].isProcessed
         /\ Clock - activeNotes[j].spawnTime > GREAT_WINDOW

\* ------------------------------------------------------------------------
\* C13: no note lingers forever.  While the frames keep running, a note that
\* is active and unjudged in a session being played does not stay so for
\* ever: it is hit, or counted as a timeout Miss, or the session is paused
\* or ended (failure, Retry, Back to Select, the window closed).
\* ------------------------------------------------------------------------
Lingers(i) ==
    /\ running /\ gameState = "PLAYING"
    /\ \E j \in DOMAIN activeNotes : activeNotes[j].id = i /\ ~activeNotes[j].isProcessed

C13_NoNoteLingers == \A i \in 1..(StackSize + 1) : Lingers(i) ~> ~Lingers(i)

\* ------------------------------------------------------------------------
\* C14: maxCombo >= combo in every state: after every key press, timeout,
\* session start and Retry, and so after every frame.
\* ------------------------------------------------------------------------
C14_MaxComboBound == maxCombo >= combo

\* A combo of two has been broken by a Miss: maxCombo keeps the two.
C14_Witness ==
    /\ gameState = "PLAYING"
    /\ combo = 0 /\ maxCombo = 2 /\ missCount >= 1

\* ------------------------------------------------------------------------
\* C15: within a session combo changes in two ways only: a Perfect or Great
\* outcome raises it by exactly 1, and an update that counts a Miss sets it
\* to 0, where it stays until the end of the frame.  Every Perfect or Great
\* raises it, every Miss resets it.
\* ------------------------------------------------------------------------
C15_ComboRule ==
    /\ [][(combo' # combo /\ ~RetryStep /\ ~SessionStart) =>
            \/ /\ combo' = combo + 1
               /\ perfectCount' + greatCount' = perfectCount + greatCount + 1
               /\ missCount' = missCount
            \/ /\ combo' = 0
               /\ missCount' > missCount
               /\ perfectCount' = perfectCount /\ greatCount' = greatCount]_vars
    /\ [][((perfectCount' > perfectCount \/ greatCount' > greatCount)
             /\ ~RetryStep /\ ~SessionStart) => combo' = combo + 1]_vars
    /\ [][missCount' > missCount => (combo' = 0 /\ loopPc' = "check")]_vars
    /\ [][loopPc = "check" => combo' = combo]_vars

\* A Great after a Perfect has brought the combo to two.
C15_Witness ==
    /\ gameState = "PLAYING"
    /\ combo = 2 /\ perfectCount = 1 /\ greatCount = 1 /\ missCount = 0
    /\ lastOutcome = "GREAT"

\* ------------------------------------------------------------------------
\* C16: score, perfectCount, greatCount and missCount never go down within
\* a session: a step that is neither a session start nor a Retry (a pause, a
\* resume, an update with its evictions, a None press, a terminal check)
\* leaves each of them as it is or raises it.
\* ------------------------------------------------------------------------
C16_Monotone ==
    [][(~RetryStep /\ ~SessionStart) =>
          /\ score' >= score
          /\ perfectCount' >= perfectCount
          /\ greatCount' >= greatCount
          /\ missCount' >= missCount]_vars

\* The session has been paused with a Great, a Perfect and a Miss on the
\* counters.
C16_Witness ==
    /\ gameState = "PAUSED"
    /\ score = 150 /\ perfectCount = 1 /\ greatCount = 1 /\ missCount >= 1

\* ------------------------------------------------------------------------
\* C17: hp changes by judgments only.  A Perfect gives
\* hp' = min(MAX_HP, hp + 2), a Great hp' = min(MAX_HP, hp + 1), an update
\* that counts n Misses hp' = hp - 10 * n; no other step of a session
\* changes hp.
\* ------------------------------------------------------------------------
C17_HealthDeltas ==
    [][(~RetryStep /\ ~SessionStart) =>
          /\ perfectCount' = perfectCount + 1 =>
                hp' = (IF hp + 2 > MAX_HP THEN MAX_HP ELSE hp + 2)
          /\ greatCount' = greatCount + 1 =>
                hp' = (IF hp + 1 > MAX_HP THEN MAX_HP ELSE hp + 1)
          /\ missCount' # missCount => hp' = hp - 10 * (missCount' - missCount)
          /\ (perfectCount' = perfectCount /\ greatCount' = greatCount
                /\ missCount' = missCount) => hp' = hp]_vars

\* Three Misses, then a Great: 100 - 30 + 1.
C17_Witness ==
    /\ gameState = "PLAYING"
    /\ missCount = 3 /\ greatCount = 1 /\ perfectCount = 0
    /\ hp = MAX_HP - 29

\* ------------------------------------------------------------------------
\* C18: a Retry from the pause, the game-over or the results menu, and a
\* session start from the difficulty screen, give the state of a fresh
\* session: score, combo, maxCombo and the three counters are 0, hp is
\* MAX_HP, the cursor is 0, no note is active, the game is PLAYING; a Retry
\* keeps the chart, a session start plays the chart that was selected.
\* ------------------------------------------------------------------------
Fresh ==
    /\ score = 0 /\ combo = 0 /\ maxCombo = 0
    /\ perfectCount = 0 /\ greatCount = 0 /\ missCount = 0
    /\ hp = MAX_HP
    /\ nextNoteIndex = 0
    /\ activeNotes = << >>
    /\ gameState = "PLAYING"

C18_RetryIsFresh ==
    /\ [][RetryStep => (Fresh' /\ chart' = chart)]_vars
    /\ [][SessionStart =>
            (Fresh' /\ chart' \in loadChartFromMidi(songs[selectedSongIndex + 1]
                                   .charts[selectedDifficultyIndex + 1].midi))]_vars

\* A fresh session of the three note part of the EASY chart that can only
\* have been started after an earlier one was paused: the pause menu was
\* left on Retry.
C18_Witness ==
    /\ Fresh /\ loopPc = "poll"
    /\ selectedPauseMenuIndex = 1
    /\ chart = EasyChart
    /\ musicStatus = "Playing" /\ musicPos = 0

\* ------------------------------------------------------------------------
\* C19: the chart is not modified during play.  Only the start of a session
\* from the difficulty screen assigns the chart; the judged flag of every
\* chart entry stays false; every active note is a copy of its chart entry
\* (lane and spawn time) whose own flag is only set when the note has been
\* judged in this session, so that after a Retry every note is admitted
\* again as unjudged.  (A session start that finds an empty chart assigns
\* it and leaves the program: the active notes are not looked at again.)
\* ------------------------------------------------------------------------
C19_ChartImmutable ==
    /\ [][chart' # chart => StartGame]_vars
    /\ [](\A i \in DOMAIN chart : ~chart[i].isProcessed)
    /\ [](running => \A j \in DOMAIN activeNotes :
            /\ activeNotes[j].id \in DOMAIN chart
            /\ activeNotes[j].laneIndex = chart[activeNotes[j].id].laneIndex
            /\ activeNotes[j].spawnTime = chart[activeNotes[j].id].spawnTime
            /\ activeNotes[j].isProcessed => judgeCount[activeNotes[j].id] >= 1)
    /\ [][RetryStep => \A i \in DOMAIN chart : judgeCount'[i] = 0]_vars

\* In a session of the HARD chart that follows an earlier one (the pause
\* menu was left on its second entry) the chord is active again, all its
\* notes unjudged, and the chart is as it was loaded.
C19_Witness ==
    /\ gameState = "PLAYING" /\ chart = HardChart
    /\ Len(activeNotes) = StackSize
    /\ \A j \in DOMAIN activeNotes : ~activeNotes[j].isProcessed
    /\ SumSeq(judgeCount) = 0
    /\ selectedPauseMenuIndex = 1

\* ------------------------------------------------------------------------
\* C20: the admission cursor never moves backward within a session and the
\* notes are admitted in chart order.  While the program runs,
\* 0 <= nextNoteIndex <= chart.size(); a step that is neither a session
\* start nor a Retry does not lower the cursor; the notes that such a step
\* adds to the active list are exactly the chart entries the cursor has
\* passed in that step, minus the ones evicted at once, so no chart index is
\* admitted twice; and the active list is always in strictly ascending
\* chart index, below the cursor.
\* ------------------------------------------------------------------------
C20_CursorMonotone ==
    /\ [](running => (0 <= nextNoteIndex /\ nextNoteIndex <= Len(chart)))
    /\ [][(~RetryStep /\ ~SessionStart /\ running') => nextNoteIndex' >= nextNoteIndex]_vars
    /\ [][(~RetryStep /\ ~SessionStart) =>
            \A m \in DOMAIN activeNotes' :
               \/ \E j \in DOMAIN activeNotes : activeNotes[j].id = activeNotes'[m].id
               \/ (nextNoteIndex < activeNotes'[m].id /\ activeNotes'[m].id <= nextNoteIndex')]_vars
    /\ [](\A j \in DOMAIN activeNotes :
            /\ 1 <= activeNotes[j].id /\ activeNotes[j].id <= nextNoteIndex
            /\ \A k \in DOMAIN activeNotes : j < k => activeNotes[j].id < activeNotes[k].id)

\* The cursor has moved in two steps (three notes, then the fourth) and the
\* first three notes have been evicted: the active list is the last note.
C20_Witness ==
    /\ gameState = "PLAYING" /\ chart = EasyChart
    /\ config.noteSpeedMultiplier = 50
    /\ nextNoteIndex = 4
    /\ Len(activeNotes) = 1 /\ activeNotes[1].id = 4

\* ------------------------------------------------------------------------
\* Vocabulary of the properties about the scheduler
\* ------------------------------------------------------------------------
\* A step that is the update of a PLAYING frame.
UpdateStep == gameState = "PLAYING" /\ loopPc = "poll" /\ loopPc' = "check"

\* timestamp - judgmentClock of a chart note and the look-ahead horizon
\* fallDistance / (pixelsPerSecond * speedMultiplier), both multiplied by
\* pixelsPerSecond * speedMultiplier (the multiplier in tenths, the times in
\* milliseconds).
AheadScaled(note) ==
    (note.spawnTime - (musicPos + config.audioOffset))
        * NOTE_PIXELS_PER_SECOND * config.noteSpeedMultiplier

HorizonScaled == JUDGMENT_LINE_Y * 10000

ActiveIds == {activeNotes[j].id : j \in DOMAIN activeNotes}

\* ------------------------------------------------------------------------
\* C22: the eviction of an update at the clock t removes from the active
\* set exactly the judged notes with t - timestamp > EVICT_DELAY (1.0 s),
\* the notes judged by the timeouts of that same update included, and
\* nothing else: a note that is unjudged after the timeouts stays, the notes
\* that stay keep their order, no other step but a session start or a Retry
\* takes a note out of the active set, and eviction changes no part of the
\* progress state: an update without a timeout leaves score, combo,
\* maxCombo, the tier counters and hp as they are.
\* ------------------------------------------------------------------------
C22_Eviction ==
    /\ [][UpdateStep =>
            LET before == ActiveIds \cup (nextNoteIndex + 1)..nextNoteIndex'
                gone == {i \in before : /\ judgeCount'[i] >= 1
                                        /\ Clock - chart[i].spawnTime > EVICT_DELAY}
            IN  /\ ActiveIds' = before \ gone
                /\ \A i \in before : judgeCount'[i] = 0 => i \in ActiveIds'
                /\ \A j, k \in DOMAIN activeNotes' :
                      j < k => activeNotes'[j].id < activeNotes'[k].id
                /\ UNCHANGED <<score, maxCombo, perfectCount, greatCount>>
                /\ judgeCount' = judgeCount => UNCHANGED progressVars]_vars
    /\ [][(~(ActiveIds \subseteq ActiveIds') /\ ~RetryStep /\ ~SessionStart) => UpdateStep]_vars

\* An update of an EDGE session has evicted the first note, which a key
\* press had judged Perfect; the second note, unjudged, is all that is active,
\* and the progress state is that of the one hit.
C22_Witness ==
    /\ gameState = "PLAYING" /\ loopPc = "check"
    /\ chart = EdgeChart
    /\ nextNoteIndex = 2 /\ ActiveIds = {2}
    /\ ~activeNotes[1].isProcessed
    /\ judgeCount[1] = 1 /\ perfectCount = 1 /\ missCount = 0
    /\ score = 100 /\ combo = 1 /\ hp = MAX_HP

\* ------------------------------------------------------------------------
\* Vocabulary of the properties about the chart loader
\* ------------------------------------------------------------------------
\* The MIDI file of the chart that is selected.
SelectedMidi == songs[selectedSongIndex + 1].charts[selectedDifficultyIndex + 1].midi

\* Positions of the note-on events of a file.
NoteOnEvents(file) == {i \in DOMAIN file.events : file.events[i].isNoteOn}

\* An insertion sort by spawn time that keeps the order of equal times.
RECURSIVE InsertStable(_, _)
InsertStable(sorted, n) ==
    IF sorted = << >> THEN <<n>>
    ELSE IF Head(sorted).spawnTime <= n.spawnTime
         THEN <<Head(sorted)>> \o InsertStable(Tail(sorted), n)
         ELSE <<n>> \o sorted

RECURSIVE StableSort(_)
StableSort(notes) ==
    IF notes = << >> THEN << >>
    ELSE InsertStable(StableSort(SubSeq(notes, 1, Len(notes) - 1)), notes[Len(notes)])

\* ------------------------------------------------------------------------
\* C23: every loaded chart is sorted non-decreasing by spawn time
\* (chart[i].spawnTime <= chart[j].spawnTime for i < j), and the chart a
\* session start loads is a permutation of the note-on events of its file:
\* for every lane and time it has as many notes as the file has note-on
\* events of that lane and time, none dropped and none duplicated; an
\* unreadable file gives the empty chart.
\* ------------------------------------------------------------------------
C23_SortedPermutation ==
    /\ [](\A i, j \in DOMAIN chart : i < j => chart[i].spawnTime <= chart[j].spawnTime)
    /\ [][StartGame =>
            LET file == SelectedMidi
                on == NoteOnEvents(file)
                lanes == {chart'[i].laneIndex : i \in DOMAIN chart'}
                           \cup {file.events[i].keyNumber % LANE_COUNT : i \in on}
                times == {chart'[i].spawnTime : i \in DOMAIN chart'}
                           \cup {file.events[i].seconds : i \in on}
            IN  /\ Len(chart') = Cardinality(on)
                /\ \A lane \in lanes : \A t \in times :
                      Cardinality({i \in DOMAIN chart' :
                          chart'[i].laneIndex = lane /\ chart'[i].spawnTime = t})
                        = Cardinality({i \in on :
                             /\ file.events[i].keyNumber % LANE_COUNT = lane
                             /\ file.events[i].seconds = t})]_vars

\* A session has started with a chart of three notes loaded from a file of
\* three note-on events: two notes of one time, in different lanes, and
\* a later note.
C23_Witness ==
    /\ gameState = "PLAYING" /\ nextNoteIndex = 0
    /\ Len(chart) = 3 /\ Cardinality(NoteOnEvents(SelectedMidi)) = 3
    /\ chart[1].spawnTime = chart[2].spawnTime /\ chart[1].laneIndex # chart[2].laneIndex
    /\ chart[2].spawnTime < chart[3].spawnTime

\* ------------------------------------------------------------------------
\* C24: the chart sort is stable: notes with equal spawn times (of the same
\* lane or not) are in the loaded chart in the order of their note-on events
\* in the file, and none of them is removed as a duplicate: the chart a
\* session start loads is the stable sort of the notes of the note-on
\* events.
\* ------------------------------------------------------------------------
C24_StableSort ==
    [][(StartGame /\ SelectedMidi.readable) =>
          chart' = StableSort(CollectNotes(SelectedMidi.events))]_vars

\* ------------------------------------------------------------------------
\* C25: the chart loader makes exactly one note for each note-on event and
\* none for any other event, with lane = keyNumber mod LANE_COUNT: the chart
\* a session start loads has as many notes as its file has note-on events
\* and, for every lane, as many notes of the lane as there are note-on
\* events whose key number is congruent to it; every note of every loaded
\* chart has 0 <= lane < LANE_COUNT.
\* ------------------------------------------------------------------------
C25_LaneMapping ==
    /\ [](\A i \in DOMAIN chart : 0 <= chart[i].laneIndex /\ chart[i].laneIndex < LANE_COUNT)
    /\ [][(StartGame /\ SelectedMidi.readable) =>
            /\ Len(chart') = Cardinality(NoteOnEvents(SelectedMidi))
            /\ \A lane \in 0..(LANE_COUNT - 1) :
                  Cardinality({i \in DOMAIN chart' : chart'[i].laneIndex = lane})
                    = Cardinality({i \in NoteOnEvents(SelectedMidi) :
                         SelectedMidi.events[i].keyNumber % LANE_COUNT = lane})]_vars

\* A session has started with a chart of one note of lane 1, loaded from a
\* file with a note-on event of key 127 and two events that are not
\* note-on events.
C25_Witness ==
    /\ gameState = "PLAYING" /\ nextNoteIndex = 0
    /\ Len(chart) = 1 /\ chart[1].laneIndex = 1
    /\ Len(SelectedMidi.events) = 3
    /\ \E i \in NoteOnEvents(SelectedMidi) : SelectedMidi.events[i].keyNumber = 127

\* ------------------------------------------------------------------------
\* C26: an empty chart is a load failure and no session is played with zero
\* notes.  A session start whose chart load returns the empty list (file
\* unreadable, or no note-on event) leaves the program at once and does not
\* enter PLAYING; in every state with gameState PLAYING, PAUSED, GAMEOVER or
\* RESULTS the chart is not empty.
\* ------------------------------------------------------------------------
C26_NoEmptySession ==
    /\ [](gameState \in {"PLAYING", "PAUSED", "GAMEOVER", "RESULTS"} => chart # << >>)
    /\ [][(StartGame /\ chart' = << >>) =>
            (running' = FALSE /\ gameState' = gameState /\ gameState' # "PLAYING")]_vars
    /\ [][(chart # << >> /\ chart' = << >>) => running' = FALSE]_vars

\* The program has been left at the session start of the NONE chart, whose
\* file is unreadable (the audio file was opened, the chart is empty), after
\* a session in which a note was hit: the game has not gone to PLAYING.
C26_Witness ==
    /\ ~running /\ gameState = "DIFFICULTY_SELECTION"
    /\ chart = << >> /\ musicLen = songs[selectedSongIndex + 1].audioLen
    /\ ~SelectedMidi.readable
    /\ score > 0 /\ musicStatus = "Stopped"

\* ------------------------------------------------------------------------
\* C27: the judgment of a key press and the scheduler use one and the same
\* derived clock, playbackPosition + audioOffset / 1000 s, for negative as
\* for positive offsets, and never the raw playback position.  A press of
\* a lane key judges the first unjudged note of the lane whose distance
\* from that clock is less than GREAT_WINDOW, Perfect or Great by that
\* distance, and gives None when there is no such note; an update admits,
\* times out and evicts by that same clock.
\* ------------------------------------------------------------------------
C27_OneClock ==
    /\ [][\A lane \in 0..(LANE_COUNT - 1) : LanePress(lane) =>
            LET t == musicPos + config.audioOffset
                hits == {j \in DOMAIN activeNotes :
                            /\ ~activeNotes[j].isProcessed
                            /\ activeNotes[j].laneIndex = lane
                            /\ Abs(t - activeNotes[j].spawnTime) < GREAT_WINDOW}
            IN  /\ hits = {} => (lastOutcome' = "NONE" /\ judgeCount' = judgeCount)
                /\ hits # {} =>
                      \E j \in hits :
                         /\ \A k \in hits : j <= k
                         /\ NewlyJudged = {activeNotes[j].id}
                         /\ lastOutcome' = IF Abs(t - activeNotes[j].spawnTime) < PERFECT_WINDOW
                                           THEN "PERFECT" ELSE "GREAT"]_vars
    /\ [][UpdateStep =>
            LET t == musicPos + config.audioOffset
                ahead(i) == (chart[i].spawnTime - t)
                               * NOTE_PIXELS_PER_SECOND * config.noteSpeedMultiplier
                before == ActiveIds \cup (nextNoteIndex + 1)..nextNoteIndex'
            IN  /\ \A i \in (nextNoteIndex + 1)..nextNoteIndex' : ahead(i) < HorizonScaled
                /\ nextNoteIndex' < Len(chart) => ahead(nextNoteIndex' + 1) >= HorizonScaled
                /\ \A i \in DOMAIN judgeCount :
                      judgeCount'[i] > judgeCount[i] <=>
                         /\ i \in before /\ judgeCount[i] = 0
                         /\ t - chart[i].spawnTime > GREAT_WINDOW
                /\ \A i \in before :
                      i \notin ActiveIds' <=>
                         (judgeCount'[i] >= 1 /\ t - chart[i].spawnTime > EVICT_DELAY)]_vars

\* EDGE session with the audio offset +200 ms, playing offset 0.2 s: a
\* press has judged the note of 0.4 s Perfect and the update has admitted
\* the note of 3.0 s, 2.8 s ahead of the raw offset but less than that
\* ahead of the derived clock 0.4 s.
C27_Witness ==
    /\ gameState = "PLAYING" /\ loopPc = "check"
    /\ chart = EdgeChart /\ config.audioOffset = 200
    /\ musicStatus = "Playing" /\ musicPos = 200
    /\ perfectCount = 1 /\ judgeCount[1] = 1 /\ missCount = 0
    /\ nextNoteIndex = 2 /\ ActiveIds = {1, 2}

\* ------------------------------------------------------------------------
\* C28: the screen flow.  gameState only changes along these edges:
\* TITLE -> SONG_SELECTION, OPTIONS; OPTIONS -> TITLE; SONG_SELECTION ->
\* DIFFICULTY_SELECTION, TITLE; DIFFICULTY_SELECTION -> PLAYING,
\* SONG_SELECTION; PLAYING -> PAUSED, GAMEOVER, RESULTS; PAUSED -> PLAYING,
\* SONG_SELECTION; GAMEOVER -> PLAYING, SONG_SELECTION; RESULTS -> PLAYING,
\* SONG_SELECTION.  So RESULTS and GAMEOVER are entered from PLAYING only,
\* and PLAYING from DIFFICULTY_SELECTION, PAUSED, GAMEOVER or RESULTS only.
\* ------------------------------------------------------------------------
ScreenFlow ==
    { <<"TITLE", "SONG_SELECTION">>, <<"TITLE", "OPTIONS">>,
      <<"OPTIONS", "TITLE">>,
      <<"SONG_SELECTION", "DIFFICULTY_SELECTION">>, <<"SONG_SELECTION", "TITLE">>,
      <<"DIFFICULTY_SELECTION", "PLAYING">>, <<"DIFFICULTY_SELECTION", "SONG_SELECTION">>,
      <<"PLAYING", "PAUSED">>, <<"PLAYING", "GAMEOVER">>, <<"PLAYING", "RESULTS">>,
      <<"PAUSED", "PLAYING">>, <<"PAUSED", "SONG_SELECTION">>,
      <<"GAMEOVER", "PLAYING">>, <<"GAMEOVER", "SONG_SELECTION">>,
      <<"RESULTS", "PLAYING">>, <<"RESULTS", "SONG_SELECTION">> }

C28_ScreenFlow ==
    /\ [](gameState \in GameStates)
    /\ [][gameState' # gameState => <<gameState, gameState'>> \in ScreenFlow]_vars

\* A session is paused after an earlier session had been completed and its
\* results screen left by Back to Select (the results menu is on its second
\* entry), and after the pause menu had been moved to Retry.
C28_Witness ==
    /\ gameState = "PAUSED"
    /\ selectedResultsMenuIndex = 1 /\ selectedPauseMenuIndex = 1
    /\ chart = EasyChart /\ missCount >= 1

\* ------------------------------------------------------------------------
\* C29: pause freezes the session.  While gameState is PAUSED (and likewise
\* GAMEOVER, RESULTS or a menu screen) no key press and no frame changes
\* score, combo, maxCombo, the tier counters, hp, the cursor, the active
\* notes or any judged flag, except a session start or a Retry; the press of
\* Escape that pauses changes none of them either, and neither does Resume
\* (menu entry or Escape), so that a Pause followed by a Resume is back in
\* PLAYING with all of them as they were when Pause was pressed.
\* ------------------------------------------------------------------------
C29_PauseFreezes ==
    /\ [][(gameState # "PLAYING" /\ ~RetryStep /\ ~SessionStart) =>
            UNCHANGED <<progressVars, nextNoteIndex, activeNotes, judgeCount>>]_vars
    /\ [][PlayingKey("Escape") =>
            /\ gameState' = "PAUSED"
            /\ UNCHANGED <<progressVars, nextNoteIndex, activeNotes, judgeCount>>]_vars
    /\ [][(gameState = "PAUSED" /\ ~RetryStep
             /\ (PausedKey("Escape") \/ (PausedKey("Enter") /\ selectedPauseMenuIndex = 0))) =>
            /\ gameState' = "PLAYING"
            /\ UNCHANGED <<progressVars, nextNoteIndex, activeNotes, judgeCount>>]_vars

\* A session is being played again after a pause in which the menu was
\* moved to its last entry and left by Escape: a Perfect, a Great and the
\* active notes are as the pause has found them.
C29_Witness ==
    /\ gameState = "PLAYING" /\ loopPc = "poll"
    /\ selectedPauseMenuIndex = 2
    /\ musicStatus = "Playing"
    /\ score = 150 /\ combo = 2 /\ maxCombo = 2 /\ missCount = 0 /\ hp = MAX_HP
    /\ activeNotes # << >>

\* ------------------------------------------------------------------------
\* C30: high scores are decided on session completion only.  The stored
\* high scores change only in the step from PLAYING to RESULTS, only for
\* the key of the song and difficulty played and only when the final score
\* is strictly greater than the stored value (0 when there is none): the
\* score is then stored, and otherwise nothing is.  So a stored high score
\* never goes down, no key is ever removed, and a failed session
\* (GAMEOVER), a Retry, a Pause or Back to Select changes nothing.
\* ------------------------------------------------------------------------
C30_HighScores ==
    /\ [][(gameState = "PLAYING" /\ gameState' = "RESULTS") =>
            LET key == songs[selectedSongIndex + 1].title \o "-" \o
                         songs[selectedSongIndex + 1].charts[selectedDifficultyIndex + 1].difficultyName
                old == IF key \in DOMAIN highScores THEN highScores[key] ELSE 0
            IN  IF score > old
                  THEN /\ DOMAIN highScores' = DOMAIN highScores \cup {key}
                       /\ highScores'[key] = score
                       /\ \A k \in DOMAIN highScores \ {key} : highScores'[k] = highScores[k]
                  ELSE highScores' = highScores]_vars
    /\ [][highScores' # highScores => (gameState = "PLAYING" /\ gameState' = "RESULTS")]_vars
    /\ [][\A k \in DOMAIN highScores :
            k \in DOMAIN highScores' /\ highScores'[k] >= highScores[k]]_vars

\* The results screen of a session that was completed with a score below
\* the one an earlier session had stored: the stored score stands.
C30_Witness ==
    /\ gameState = "RESULTS"
    /\ "a-HARD" \in DOMAIN highScores
    /\ score > 0 /\ score < highScores["a-HARD"]

\* ------------------------------------------------------------------------
\* C31: whenever the game is on the RESULTS screen every note of the chart
\* has been judged exactly once in the session that was completed:
\* perfectCount + greatCount + missCount = chart.size(), and every chart
\* note has one judgment, so that the rank ratio
\* score / (chart.size() * 100) is taken over a fully judged chart.
\* ------------------------------------------------------------------------
C31_FullyJudged ==
    gameState = "RESULTS" =>
        /\ perfectCount + greatCount + missCount = Len(chart)
        /\ \A i \in DOMAIN chart : judgeCount[i] = 1

\* ------------------------------------------------------------------------
\* C32: a session always ends once the audio has finished.  When the stream
\* is reported stopped while the game is PLAYING with hp > 0 then, the
\* frames going on, the game leaves PLAYING: it reaches RESULTS or GAMEOVER
\* (or it is paused or the window is closed), whatever notes are active at
\* the moment the audio finishes.
\* ------------------------------------------------------------------------
AudioFinished ==
    running /\ gameState = "PLAYING" /\ musicStatus = "Stopped" /\ hp > 0

C32_SessionEnds == AudioFinished ~> (gameState # "PLAYING" \/ ~running)


\* C33: on the GAMEOVER screen the selected menu index is a valid entry of the
\* two-item game-over menu (0 = Retry, 1 = Back to Select), whatever path led
\* to GAMEOVER, so that Enter always leaves GAMEOVER.
C33_GameoverIndexValid ==
    gameState = "GAMEOVER" => selectedPauseMenuIndex \in 0..(GAMEOVER_MENU_SIZE - 1)


\* C34: the score is determined by the tier counts: in every reachable state
\* score = 100 * perfectCount + 50 * greatCount (a Miss and a press that
\* matches nothing score nothing), and hence the score of a session is at
\* most 100 times the number of notes of its chart.
C34_ScoreFromTiers ==
    /\ score = 100 * perfectCount + 50 * greatCount
    /\ gameState \in {"PLAYING", "PAUSED", "GAMEOVER", "RESULTS"} => score <= 100 * Len(chart)

\* A session with a Perfect, a Great and a Miss behind it.
C34_Witness ==
    /\ gameState \in {"PLAYING", "PAUSED"}
    /\ perfectCount > 0 /\ greatCount > 0 /\ missCount > 0
    /\ score = 100 * perfectCount + 50 * greatCount


\* The notes admitted in this session whose judged flag is true: the judged
\* notes on the playfield and the evicted ones (a note leaves the playfield
\* only with its flag set).
JudgedOnField == {j \in 1..Len(activeNotes) : activeNotes[j].isProcessed}

JudgedSoFar == Cardinality(JudgedOnField) + (nextNoteIndex - Len(activeNotes))

\* C35: outcome accounting: in every reachable state of a session
\* perfectCount + greatCount + missCount is the number of notes admitted in
\* this session whose judged flag is true (the evicted ones included), which
\* is at most nextNoteIndex, itself at most the size of the chart; and
\* combo <= perfectCount + greatCount.
C35_OutcomeAccounting ==
    gameState \in {"PLAYING", "PAUSED", "GAMEOVER", "RESULTS"} =>
        /\ perfectCount + greatCount + missCount = JudgedSoFar
        /\ JudgedSoFar = Cardinality({i \in DOMAIN judgeCount : judgeCount[i] > 0})
        /\ JudgedSoFar <= nextNoteIndex
        /\ nextNoteIndex <= Len(chart)
        /\ combo <= perfectCount + greatCount

\* A session with a hit and a Miss behind it, some of the judged notes
\* evicted, the others still on the playfield.
C35_Witness ==
    /\ gameState = "PLAYING"
    /\ nextNoteIndex > Len(activeNotes)
    /\ perfectCount + greatCount > 0 /\ missCount > 0
    /\ JudgedOnField # {}


\* C36: one key press consumes at most one note: a press of a lane key marks
\* at most one note judged, raises combo by at most 1, raises exactly one of
\* perfectCount and greatCount by 1 when it matches a note and neither when
\* it does not, and never changes missCount; a key that is neither a lane
\* key nor Escape changes nothing.
C36_OnePressOneNote ==
    /\ [][\A lane \in 0..(LANE_COUNT - 1) : LanePress(lane) =>
            /\ Cardinality(NewlyJudged) <= 1
            /\ missCount' = missCount
            /\ Len(activeNotes') = Len(activeNotes)
            /\ IF NewlyJudged # {}
                 THEN /\ combo' = combo + 1
                      /\ \/ perfectCount' = perfectCount + 1 /\ greatCount' = greatCount
                         \/ perfectCount' = perfectCount /\ greatCount' = greatCount + 1
                 ELSE UNCHANGED <<combo, perfectCount, greatCount, score, hp>>]_vars
    /\ [][\A key \in Keys \ ({LANE_KEYS[i] : i \in 1..LANE_COUNT} \cup {"Escape"}) :
            PlayingKey(key) => UNCHANGED vars]_vars

\* A press has just judged one of two or more notes of its lane that were
\* all inside the tolerance.
C36_Witness ==
    /\ gameState = "PLAYING"
    /\ lastOutcome \in {"PERFECT", "GREAT"}
    /\ perfectCount + greatCount = 1 /\ missCount = 0
    /\ \E lane \in 0..(LANE_COUNT - 1) : Cardinality(InTolerance(lane)) >= 2


\* Every value of a configuration is inside its bounds.
InBounds(cfg) ==
    /\ cfg.noteSpeedMultiplier \in 1..50
    /\ cfg.bgmVolume \in 0..100
    /\ cfg.sfxVolume \in 0..100
    /\ cfg.audioOffset \in -1000..1000

\* C37: the options screen keeps the configuration inside its bounds: after
\* every sequence of Left and Right adjustments from a configuration inside
\* the bounds, noteSpeedMultiplier is in [0.1, 5.0] (positive, as the
\* scheduler needs it), bgmVolume and sfxVolume are in [0, 100] and
\* audioOffset is in [-1000, 1000] ms.
C37_OptionsInBounds == InBounds(config) /\ config.noteSpeedMultiplier > 0

\* Every option has been driven against one of its bounds: the multiplier up
\* from 4.9, the BGM volume up from 98, the SFX volume down from 3, the
\* offset down from -995 with Shift.
C37_Witness ==
    /\ gameState = "OPTIONS"
    /\ config = [noteSpeedMultiplier |-> 50, bgmVolume |-> 100, sfxVolume |-> 0,
                 audioOffset |-> -1000]


\* The game is in a session: playing or paused.
InSession == gameState \in {"PLAYING", "PAUSED"}

\* C38: the calibration offset and the speed multiplier are constant for the
\* whole of a session: no step that starts a session, restarts it, runs
\* inside it or leaves it changes config.audioOffset or
\* config.noteSpeedMultiplier; the options screen, the one place where they
\* change, is entered from TITLE only.
C38_ConfigFixedInSession ==
    /\ [][InSession \/ InSession' =>
            /\ config'.audioOffset = config.audioOffset
            /\ config'.noteSpeedMultiplier = config.noteSpeedMultiplier]_vars
    /\ [][gameState # "OPTIONS" /\ gameState' = "OPTIONS" => gameState = "TITLE"]_vars
    /\ [][config' # config => gameState = "OPTIONS" /\ gameState' = "OPTIONS"]_vars

\* A session under an offset set on the options screen, paused after a Miss.
C38_Witness ==
    /\ gameState = "PAUSED"
    /\ config.audioOffset = 10
    /\ missCount > 0


\* The (song, chart) positions of the song list.
ChartSlots == UNION {{<<i, j>> : j \in DOMAIN songs[i].charts} : i \in DOMAIN songs}

\* C39: high-score keys are distinct for distinct charts: two (song title,
\* difficulty name) pairs that differ get different keys from
\* generateHighScoreKey, also when titles and difficulty names hold a '-',
\* so that completing one chart never overwrites the stored high score of
\* another.
C39_DistinctKeys ==
    \A a \in ChartSlots, b \in ChartSlots :
        LET songA == songs[a[1]]
            chartA == songA.charts[a[2]]
            songB == songs[b[1]]
            chartB == songB.charts[b[2]]
        IN  <<songA.title, chartA.difficultyName>> # <<songB.title, chartB.difficultyName>>
                => generateHighScoreKey(songA, chartA) # generateHighScoreKey(songB, chartB)

====
